---------------------------- MODULE Spec2Model ----------------------------
(***************************************************************************)
(* Model of the IMAP hibernation core, src/imap-hibernate/imap-client.c.   *)
(*                                                                         *)
(* The program state is the set of struct imap_client objects, the global  *)
(* session list, the unhibernation priority queue, the shared retry timer  *)
(* and the event loop's clock.  Every event-loop callback of the file is   *)
(* one action; the functions it calls are operators on the whole program   *)
(* state, so that a callback's nested calls (move_back -> try_move_back -> *)
(* destroy -> stop) are part of the same step.                             *)
(***************************************************************************)
EXTENDS Integers, Sequences, FiniteSets, TLC

VARIABLES
    clients,          \* [Clients -> struct imap_client]
    imap_clients,     \* the global session list, head first
    unhibernate_queue,\* the priority queue's heap array
    to_unhibernate,   \* the shared retry timer is armed
    ioloop_time,      \* the event loop's clock, in seconds
    peer,             \* per session: what the remote IMAP client still sends
    obs,              \* per session: what the outside world has observed
    deinit_done       \* imap_clients_deinit() has run

vars == <<clients, imap_clients, unhibernate_queue, to_unhibernate,
          ioloop_time, peer, obs, deinit_done>>

-----------------------------------------------------------------------------
(* Program constants *)

IMAP_MAX_INBUF == 141
IMAP_CLIENT_MOVE_BACK_WITH_INPUT_TIMEOUT_SECS == 10
IMAP_CLIENT_MOVE_BACK_WITHOUT_INPUT_TIMEOUT_SECS == 300

IMAP_CLIENT_BUFFER_FULL_ERROR == "Client output buffer is full"
IMAP_CLIENT_UNHIBERNATE_ERROR == "Failed to unhibernate client"
MASTER_SERVICE_SHUTTING_DOWN_MSG == "Shutting down"
MASTER_SERVICE_USER_KICKED_MSG == "Kicked"
DISCONNECTED_REASON == "Connection closed"

(* Bounds of the model *)

NClients == 2        \* sessions that may be created
MaxNotify == 1       \* notify fds per session
MaxOut == 2          \* fragments written to one client by refreshes/keepalives
ShortStep == 6       \* the clock's small advance, in seconds
LongSteps == 1       \* how many times the clock makes its large advance
ShortSteps == 2      \* how many times the clock makes its small advance

Clients == 1..NClients

-----------------------------------------------------------------------------
(* Bytes.  A byte is a one-letter string; CR, LF, SP and TAB are named. *)

CR == "CR"
LF == "LF"
SP == "SP"
TAB == "TAB"

Upper(b) ==
    CASE b = "d" -> "D" [] b = "o" -> "O" [] b = "n" -> "N" [] b = "e" -> "E"
      [] b = "i" -> "I" [] b = "l" -> "L" [] OTHER -> b

S_DONE == <<"D", "O", "N", "E">>
S_IDLE == <<"I", "D", "L", "E">>

\* i_memcasecmp(data + off, str, n) == 0, for 1-based position pos = off + 1
i_memcasecmp_eq(data, pos, str, n) ==
    \A i \in 1..n : Upper(data[pos + i - 1]) = Upper(str[i])

I_MIN(a, b) == IF a < b THEN a ELSE b

-----------------------------------------------------------------------------
(* imap_client_input_parse *)

IMAP_CLIENT_INPUT_STATE_UNKNOWN == "UNKNOWN"
IMAP_CLIENT_INPUT_STATE_BAD == "BAD"
IMAP_CLIENT_INPUT_STATE_DONE_LF == "DONE_LF"
IMAP_CLIENT_INPUT_STATE_DONE_CRLF == "DONE_CRLF"
IMAP_CLIENT_INPUT_STATE_DONEIDLE == "DONEIDLE"

NoTag == <<"(unset)">>

ParseResult(st, tag, oob) == [state |-> st, tag |-> tag, oob |-> oob]

\* "while (data[0] != ' ' && data[0] != '\r' && data[0] != '\t')": the first
\* position >= from holding a delimiter, or Len(data) + 1 when the data holds
\* none (the loop has no size check and then reads past the data).
TagDelimiters == {SP, CR, TAB}

tag_scan(data, from) ==
    LET hits == {i \in from..Len(data) : data[i] \in TagDelimiters}
    IN  IF hits = {} THEN Len(data) + 1
        ELSE CHOOSE i \in hits : \A j \in hits : i <= j

parse_after_tag_no_cr(data, state, tag_start, sp) ==
    LET idle == sp + 1
        size == Len(data) - sp
    IN  IF size <= 4 \/ ~i_memcasecmp_eq(data, idle, S_IDLE, 4)
        THEN ParseResult(state, NoTag, FALSE)
        ELSE IF size - 4 = 1 /\ data[idle + 4] = LF
        THEN ParseResult(IMAP_CLIENT_INPUT_STATE_DONEIDLE,
                         SubSeq(data, tag_start, sp - 1), FALSE)
        ELSE ParseResult(state, NoTag, FALSE)

parse_after_tag_no_tag(data, state, tag_start, sp) ==
    LET idle == sp + 1
        size == Len(data) - sp
    IN  IF size <= 4 \/ ~i_memcasecmp_eq(data, idle, S_IDLE, 4)
        THEN ParseResult(state, NoTag, FALSE)
        ELSE LET cr   == data[idle + 4] = CR
                 nl   == IF cr THEN idle + 5 ELSE idle + 4
                 left == IF cr THEN size - 5 ELSE size - 4
             IN  IF left = 1 /\ data[nl] = LF
                 THEN ParseResult(IMAP_CLIENT_INPUT_STATE_DONEIDLE, NoTag, FALSE)
                 ELSE ParseResult(state, NoTag, FALSE)

\* Lines 377-393, entered with data[sp] = ' ' inside the data.
parse_after_tag(data, state, tag_start, sp) ==
    LET idle == sp + 1
        size == Len(data) - sp
    IN  IF size <= 4 \/ ~i_memcasecmp_eq(data, idle, S_IDLE, 4)
        THEN ParseResult(state, NoTag, FALSE)
        ELSE LET cr   == data[idle + 4] = CR
                 nl   == IF cr THEN idle + 5 ELSE idle + 4
                 left == IF cr THEN size - 5 ELSE size - 4
             IN  IF left = 1 /\ data[nl] = LF
                 THEN ParseResult(IMAP_CLIENT_INPUT_STATE_DONEIDLE,
                                  SubSeq(data, tag_start, sp - 1), FALSE)
                 ELSE ParseResult(state, NoTag, FALSE)

parse_tag_lenient(data, state, tag_start) ==
    LET tag_end == tag_scan(data, tag_start)
    IN  IF tag_end > Len(data)
        THEN {ParseResult(state, NoTag, TRUE),
              ParseResult(IMAP_CLIENT_INPUT_STATE_BAD, NoTag, TRUE)}
        ELSE IF data[tag_end] # SP
        THEN {ParseResult(state, NoTag, FALSE)}
        ELSE {parse_after_tag(data, state, tag_start, tag_end)}

\* Lines 362-375.  When the data ends inside the tag the loop reads the bytes
\* behind the data: whatever they are, the function then returns `state' (a
\* delimiter right behind the data: size is 0) or BAD (size has wrapped and the
\* delimiter found is not a space) or `state' again (space, then no "IDLE" or
\* no size of 1).  Both outcomes are kept.
parse_tag(data, state, tag_start) ==
    LET tag_end == tag_scan(data, tag_start)
    IN  IF tag_end > Len(data)
        THEN {ParseResult(state, NoTag, TRUE),
              ParseResult(IMAP_CLIENT_INPUT_STATE_BAD, NoTag, TRUE)}
        ELSE IF data[tag_end] # SP
        THEN {ParseResult(IMAP_CLIENT_INPUT_STATE_BAD, NoTag, FALSE)}
        ELSE {parse_after_tag(data, state, tag_start, tag_end)}

\* The set of results the function can return for `data' (size = Len(data) > 0).
imap_client_input_parse(data) ==
    LET size == Len(data)
    IN  IF ~i_memcasecmp_eq(data, 1, S_DONE, I_MIN(size, 4))
        THEN {ParseResult(IMAP_CLIENT_INPUT_STATE_BAD, NoTag, FALSE)}
        ELSE IF size <= 4
        THEN {ParseResult(IMAP_CLIENT_INPUT_STATE_UNKNOWN, NoTag, FALSE)}
        ELSE LET cr    == data[5] = CR
                 state == IF cr THEN IMAP_CLIENT_INPUT_STATE_DONE_CRLF
                                ELSE IMAP_CLIENT_INPUT_STATE_DONE_LF
                 nl    == IF cr THEN 6 ELSE 5
             IN  IF nl > size
                 THEN {ParseResult(IMAP_CLIENT_INPUT_STATE_UNKNOWN, NoTag, FALSE)}
                 ELSE IF data[nl] # LF
                 THEN {ParseResult(IMAP_CLIENT_INPUT_STATE_BAD, NoTag, FALSE)}
                 ELSE IF nl = size
                 THEN {ParseResult(state, NoTag, FALSE)}
                 ELSE parse_tag(data, state, nl + 1)

-----------------------------------------------------------------------------
(* struct imap_client, and what is observed of a session from outside *)

Users == {"alice", "bob"}
Tags == {<<"a">>, <<"b">>}
NoUser == "(none)"

\* The object before imap_client_create() and after pool_unref().
NoClient(alive) ==
    [alive |-> alive,               \* "none", "live" or "freed"
     username |-> NoUser, tag |-> NoTag, idle_cmd |-> FALSE,
     imap_idle_notify_interval |-> 0, anvil_sent |-> FALSE,
     notifys |-> <<>>,              \* [fd: open?, io: watcher registered?]
     move_back_start |-> 0,
     io |-> "null",                 \* "null", "idle_cmd" or "nonidle"
     input |-> <<>>,                \* unread bytes of the input stream
     output |-> <<>>,               \* fragments buffered in the output stream
     to_keepalive |-> FALSE,
     master_conn |-> "null",        \* "null", "connected" or "fd_sent"
     ioloop_ctx |-> FALSE,
     next_read_threshold |-> 0,
     bad_done |-> FALSE, idle_done |-> FALSE,
     unhibernate_queued |-> FALSE, input_pending |-> FALSE,
     shutdown_fd_on_destroy |-> FALSE]

NoRecord == [sent |-> FALSE]

\* What refers to a session from outside its own memory: the event loop's
\* watchers and timers, the master connection, the list and the queue.
NoRefs ==
    [io |-> "null", to_keepalive |-> FALSE, notify_ios |-> 0, notify_fds |-> 0,
     master_conn |-> "null", listed |-> FALSE, queued |-> FALSE]

NoObs ==
    [fd_closed |-> FALSE,           \* close(fd) by the core
     fd_shutdown |-> FALSE,         \* shutdown(fd, SHUT_RDWR) by the core
     fd_sent |-> 0,                 \* successful fd_send() calls
     shut_set |-> 0,                \* times shutdown_fd_on_destroy became true
     conn_inits |-> 0,              \* successful imap_master_connection_init()
     anvil_connects |-> 0, anvil_disconnects |-> 0,
     wire |-> <<>>,                 \* fragments that reached the client socket
     written |-> 0,                 \* fragments given to the output stream
     reason |-> "(alive)",          \* imap_client_destroy()'s reason
     shut_at_destroy |-> FALSE,     \* shutdown_fd_on_destroy on entering it
     idle_cmd |-> FALSE,            \* state.idle_cmd of the session
     attempt_buffered |-> FALSE,    \* try_move_back entered with output buffered
     conn_buffered |-> FALSE,       \* master connection made with output buffered
     plus_reply |-> FALSE,          \* destroyed by the '+' reply
     record |-> NoRecord,           \* the handoff record sent to the master
     script |-> <<>>,               \* what the remote client last began to send
     wakeups |-> 0,                 \* input wakeups that read bytes, since then
     arms |-> 0,                    \* times the keepalive timer was (re)started
     stayed |-> FALSE,              \* the last input wakeup left it hibernating
     destroys |-> 0,                \* calls of imap_client_destroy()
     byes |-> 0,                    \* "* BYE" lines given to the output stream
     at_free |-> NoRefs,            \* what still referred to it at pool_unref()
     parsed |-> <<>>,               \* data of the last imap_client_input_parse
     parse_state |-> "(none)",      \* and its result
     oob |-> FALSE,                 \* the parser has read behind its data
     assert_failed |-> FALSE]       \* an i_assert() has failed

\* The program state as one value, for the operators below.
State ==
    [clients |-> clients, imap_clients |-> imap_clients,
     unhibernate_queue |-> unhibernate_queue, to_unhibernate |-> to_unhibernate,
     ioloop_time |-> ioloop_time, obs |-> obs,
     attempts |-> 0,    \* imap_client_try_move_back() calls of the running handler
     parses |-> 0]      \* imap_client_input_parse() calls of the running handler

\* The bytes a remote client sends to a session with no input watcher are never
\* read (only imap_client_create_finish() adds the watcher): they are dropped.
PeerIdle == [bytes |-> <<>>, closed |-> FALSE]

PeerAfter(s, pr) ==
    [c \in DOMAIN pr |-> IF s.clients[c].io = "null" THEN PeerIdle ELSE pr[c]]

Becomes(s) ==
    /\ clients' = s.clients
    /\ imap_clients' = s.imap_clients
    /\ unhibernate_queue' = s.unhibernate_queue
    /\ to_unhibernate' = s.to_unhibernate
    /\ ioloop_time' = s.ioloop_time
    /\ obs' = s.obs

-----------------------------------------------------------------------------
(* lib/priorityq.c: a binary min-heap in an array, ordered by the callback *)

move_back_timeout_secs(cl) ==
    IF cl.input_pending THEN IMAP_CLIENT_MOVE_BACK_WITH_INPUT_TIMEOUT_SECS
    ELSE IMAP_CLIENT_MOVE_BACK_WITHOUT_INPUT_TIMEOUT_SECS

\* t1, t2 of client_unhibernate_cmp
unhibernate_deadline(cl) == cl.move_back_start + move_back_timeout_secs(cl)

client_unhibernate_cmp(s, c1, c2) ==
    LET t1 == unhibernate_deadline(s.clients[c1])
        t2 == unhibernate_deadline(s.clients[c2])
    IN  IF t1 < t2 THEN -1 ELSE IF t1 > t2 THEN 1 ELSE 0

heap_items_swap(items, i, j) == [items EXCEPT ![i] = items[j], ![j] = items[i]]

\* Positions are 1-based: the parent of i is i \div 2, its children 2i, 2i+1.
RECURSIVE heap_item_bubble_up(_, _, _)
heap_item_bubble_up(s, items, idx) ==
    IF idx <= 1 THEN [items |-> items, idx |-> idx]
    ELSE LET parent == idx \div 2
         IN  IF client_unhibernate_cmp(s, items[idx], items[parent]) >= 0
             THEN [items |-> items, idx |-> idx]
             ELSE heap_item_bubble_up(s, heap_items_swap(items, idx, parent),
                                      parent)

RECURSIVE heap_item_bubble_down(_, _, _)
heap_item_bubble_down(s, items, idx) ==
    LET left  == 2 * idx
        right == 2 * idx + 1
    IN  IF left > Len(items) THEN items
        ELSE LET min_child ==
                     IF right > Len(items)
                        \/ client_unhibernate_cmp(s, items[left], items[right]) < 0
                     THEN left ELSE right
             IN  IF client_unhibernate_cmp(s, items[min_child], items[idx]) >= 0
                 THEN items
                 ELSE heap_item_bubble_down(
                          s, heap_items_swap(items, idx, min_child), min_child)

priorityq_add(s, c) ==
    LET items == Append(s.unhibernate_queue, c)
    IN  [s EXCEPT !.unhibernate_queue =
                      heap_item_bubble_up(s, items, Len(items)).items]

priorityq_idx(items, c) == CHOOSE i \in 1..Len(items) : items[i] = c

priorityq_remove(s, c) ==
    LET items == s.unhibernate_queue
        idx   == priorityq_idx(items, c)
        count == Len(items) - 1
        cut   == SubSeq(heap_items_swap(items, idx, count + 1), 1, count)
    IN  [s EXCEPT !.unhibernate_queue =
            IF count > 0 /\ idx # count + 1
            THEN LET up == IF idx > 1 THEN heap_item_bubble_up(s, cut, idx)
                           ELSE [items |-> cut, idx |-> idx]
                 IN  heap_item_bubble_down(s, up.items, up.idx)
            ELSE cut]

priorityq_peek(s) == s.unhibernate_queue[1]

-----------------------------------------------------------------------------
(* The client's output stream (lib/ostream-file.c), at the grain of whole  *)
(* fragments.  `w' is what the socket does in this call: "ok" takes the    *)
(* bytes, "block" takes none (they stay buffered), "err" fails.  The       *)
(* buffer of IMAP_MAX_OUTBUF bytes holds every fragment written here.      *)

SockResults == {"ok", "block", "err"}

StillHere == [kind |-> "still_here", tag |-> NoTag]
IdleCompleted(tag) == [kind |-> "idle_completed", tag |-> tag]
Bye(msg) == [kind |-> "bye", tag |-> <<msg>>]

\* strlen() of a fragment: "* OK Still here\r\n",
\* "<tag> OK Idle completed.\r\n+ idling\r\n", "* BYE <msg>.\r\n"
FragLen(f) ==
    CASE f.kind = "still_here" -> 17
      [] f.kind = "idle_completed" -> Len(f.tag) + 31
      [] OTHER -> 22

o_stream_get_buffer_used_size(s, c) == Len(s.clients[c].output)

o_stream_flush(s, c, w) ==
    LET out == s.clients[c].output
    IN  IF out = <<>> THEN [s |-> s, ret |-> 1]
        ELSE IF w = "err" THEN [s |-> s, ret |-> -1]
        ELSE IF w = "block" THEN [s |-> s, ret |-> 0]
        ELSE [s |-> [s EXCEPT !.clients[c].output = <<>>,
                              !.obs[c].wire = @ \o out],
              ret |-> 1]

o_stream_send_str(s, c, frag, w) ==
    LET out == s.clients[c].output
    IN  IF w = "err" THEN [s |-> s, ret |-> -1]
        ELSE IF w = "block"
        THEN [s |-> [s EXCEPT !.clients[c].output = Append(out, frag),
                              !.obs[c].written = @ + 1],
              ret |-> FragLen(frag)]
        ELSE [s |-> [s EXCEPT !.clients[c].output = <<>>,
                              !.obs[c].wire = (@ \o out) \o <<frag>>,
                              !.obs[c].written = @ + 1],
              ret |-> FragLen(frag)]

-----------------------------------------------------------------------------
(* imap_client_stop_notify_listening, imap_client_stop, imap_client_destroy *)

stop_notify_listening_noop(s, c) == s

imap_client_stop_notify_listening(s, c) ==
    [s EXCEPT !.clients[c].notifys =
        [i \in 1..Len(@) |-> [fd |-> FALSE, io |-> FALSE]]]

stop_keeps_queued_flag(s, c) ==
    LET s1 == IF s.clients[c].unhibernate_queued
              THEN priorityq_remove(s, c)
              ELSE s
        s2 == [s1 EXCEPT !.clients[c].io = "null",
                         !.clients[c].to_keepalive = FALSE]
    IN  imap_client_stop_notify_listening(s2, c)

stop_keeps_io(s, c) ==
    LET s1 == IF s.clients[c].unhibernate_queued
              THEN [priorityq_remove(s, c) EXCEPT
                        !.clients[c].unhibernate_queued = FALSE]
              ELSE s
        s2 == [s1 EXCEPT !.clients[c].to_keepalive = FALSE]
    IN  imap_client_stop_notify_listening(s2, c)

stop_keeps_keepalive(s, c) ==
    LET s1 == IF s.clients[c].unhibernate_queued
              THEN [priorityq_remove(s, c) EXCEPT
                        !.clients[c].unhibernate_queued = FALSE]
              ELSE s
        s2 == [s1 EXCEPT !.clients[c].io = "null"]
    IN  imap_client_stop_notify_listening(s2, c)

imap_client_stop(s, c) ==
    LET s1 == IF s.clients[c].unhibernate_queued
              THEN [priorityq_remove(s, c) EXCEPT
                        !.clients[c].unhibernate_queued = FALSE]
              ELSE s
        s2 == [s1 EXCEPT !.clients[c].io = "null",
                         !.clients[c].to_keepalive = FALSE]
    IN  imap_client_stop_notify_listening(s2, c)

DLLIST_REMOVE(list, c) == SelectSeq(list, LAMBDA x : x # c)

anvil_disconnect_always(s, c) ==
    [s EXCEPT !.obs[c].anvil_disconnects = @ + 1]

\* Lines 738-746: master_service_anvil_disconnect() if state.anvil_sent
anvil_disconnect_if_sent(s, c) ==
    IF s.clients[c].anvil_sent
    THEN [s EXCEPT !.obs[c].anvil_disconnects = @ + 1]
    ELSE s

Refs(s, c) ==
    LET cl == s.clients[c]
    IN  [io |-> cl.io, to_keepalive |-> cl.to_keepalive,
         notify_ios |-> Cardinality({i \in 1..Len(cl.notifys) : cl.notifys[i].io}),
         notify_fds |-> Cardinality({i \in 1..Len(cl.notifys) : cl.notifys[i].fd}),
         master_conn |-> cl.master_conn,
         listed |-> \E i \in 1..Len(s.imap_clients) : s.imap_clients[i] = c,
         queued |-> \E i \in 1..Len(s.unhibernate_queue) :
                       s.unhibernate_queue[i] = c]

\* The end of imap_client_destroy: the streams, the fd and the pool
imap_client_destroy_free(s, c) ==
    [s EXCEPT !.obs[c].fd_closed = TRUE,
              !.obs[c].destroys = @ + 1,
              !.obs[c].at_free = Refs(s, c),
              !.clients[c] = NoClient("freed")]

\* reason "NULL" is the call with reason == NULL
imap_client_destroy(s, c, reason) ==
    LET cl == s.clients[c]
        s0 == anvil_disconnect_if_sent(s, c)
        s1 == [s0 EXCEPT
                 !.obs[c].reason = reason,
                 !.obs[c].shut_at_destroy = cl.shutdown_fd_on_destroy,
                 !.clients[c].master_conn = "null",
                 !.clients[c].ioloop_ctx = FALSE,
                 !.clients[c].tag = NoTag,
                 !.obs[c].fd_shutdown =
                     IF cl.shutdown_fd_on_destroy THEN TRUE ELSE @,
                 !.imap_clients = DLLIST_REMOVE(@, c)]
        s2 == imap_client_stop(s1, c)
    IN  imap_client_destroy_free(s2, c)

imap_client_disconnected(s, c) == imap_client_destroy(s, c, DISCONNECTED_REASON)

unhibernate_failed_without_shutdown(s, c) ==
    imap_client_destroy([s EXCEPT !.clients[c].shutdown_fd_on_destroy = FALSE],
                        c, IMAP_CLIENT_UNHIBERNATE_ERROR)

imap_client_unhibernate_failed(s, c) ==
    imap_client_destroy(s, c, IMAP_CLIENT_UNHIBERNATE_ERROR)

-----------------------------------------------------------------------------
(* The connection to the imap-master socket (imap-master-connection.c):    *)
(* imap_master_connection_init() returns 1 (connected), 0 (the socket is   *)
(* busy) or -1 (failed); once connected the send callback is called, then  *)
(* the read callback with the reply line.                                  *)

ConnResults == {1, 0, -1}

imap_master_connection_init(s, c, conn_ret) ==
    IF conn_ret > 0
    THEN [s EXCEPT !.clients[c].master_conn = "connected",
                   !.obs[c].conn_inits = @ + 1,
                   !.obs[c].conn_buffered =
                       @ \/ o_stream_get_buffer_used_size(s, c) > 0]
    ELSE s

-----------------------------------------------------------------------------
(* imap_client_move_back_send_callback, imap_client_move_back_read_callback *)

HandoffFlags_no_else(cl) ==
    (IF cl.idle_done /\ cl.bad_done THEN {"bad-done"} ELSE {})
    \cup (IF cl.idle_cmd THEN {"idle-continue"} ELSE {})

\* Lines 208-214
HandoffFlags(cl) ==
    IF cl.idle_done
    THEN (IF cl.bad_done THEN {"bad-done"} ELSE {})
    ELSE IF cl.idle_cmd THEN {"idle-continue"} ELSE {}

HandoffRecord(s, c) ==
    LET cl == s.clients[c]
    IN  [sent |-> TRUE, username |-> cl.username, tag |-> cl.tag,
         client_input |-> cl.input, flags |-> HandoffFlags(cl)]

send_callback_flag_first(s, c, fd_ret) ==
    LET s1 == [s EXCEPT !.obs[c].record = HandoffRecord(s, c),
                        !.clients[c].shutdown_fd_on_destroy = TRUE,
                        !.obs[c].shut_set = @ + 1]
    IN  IF fd_ret < 0 THEN imap_client_unhibernate_failed(s1, c)
        ELSE [s1 EXCEPT !.clients[c].master_conn = "fd_sent",
                        !.obs[c].fd_sent = @ + 1]

\* fd_ret is fd_send()'s result
imap_client_move_back_send_callback(s, c, fd_ret) ==
    LET s1 == [s EXCEPT
                 !.obs[c].assert_failed =
                     @ \/ o_stream_get_buffer_used_size(s, c) # 0,
                 !.obs[c].record = HandoffRecord(s, c)]
    IN  IF fd_ret < 0 THEN imap_client_unhibernate_failed(s1, c)
        ELSE [s1 EXCEPT !.clients[c].shutdown_fd_on_destroy = TRUE,
                        !.clients[c].master_conn = "fd_sent",
                        !.obs[c].shut_set =
                            IF s.clients[c].shutdown_fd_on_destroy
                            THEN @ ELSE @ + 1,
                        !.obs[c].fd_sent = @ + 1]

read_callback_keeps_flag(s, c, plus) ==
    IF ~plus THEN imap_client_unhibernate_failed(s, c)
    ELSE imap_client_destroy([s EXCEPT !.obs[c].plus_reply = TRUE], c, "NULL")

\* plus: line[0] == '+'
imap_client_move_back_read_callback(s, c, plus) ==
    IF ~plus THEN imap_client_unhibernate_failed(s, c)
    ELSE imap_client_destroy(
             [s EXCEPT !.clients[c].shutdown_fd_on_destroy = FALSE,
                       !.obs[c].plus_reply = TRUE],
             c, "NULL")

-----------------------------------------------------------------------------
(* imap_move_has_reached_timeout, imap_client_try_move_back,               *)
(* imap_client_move_back                                                   *)

timeout_ignores_unset_start(s, c) ==
    LET cl == s.clients[c]
    IN  s.ioloop_time - cl.move_back_start > move_back_timeout_secs(cl)

timeout_never_reached(s, c) == FALSE

imap_move_has_reached_timeout(s, c) ==
    LET cl == s.clients[c]
    IN  /\ cl.move_back_start # 0
        /\ s.ioloop_time - cl.move_back_start > move_back_timeout_secs(cl)

output_never_refused(s, c) == FALSE

\* Line 281: "there is data buffered, so we have to disconnect you"
output_is_buffered(s, c) == o_stream_get_buffer_used_size(s, c) > 0

\* The result is the new state and the function's return value.
imap_client_try_move_back(s0, c, conn_ret) ==
    LET s == [s0 EXCEPT !.attempts = @ + 1,
                        !.obs[c].attempt_buffered =
                            @ \/ o_stream_get_buffer_used_size(s0, c) > 0]
    IN
    IF output_is_buffered(s, c)
    THEN [s |-> imap_client_destroy(s, c, IMAP_CLIENT_BUFFER_FULL_ERROR),
          ret |-> TRUE]
    ELSE LET s1 == imap_master_connection_init(s, c, conn_ret)
         IN  IF conn_ret > 0
             THEN [s |-> imap_client_stop(s1, c), ret |-> TRUE]
             ELSE IF conn_ret < 0 \/ imap_move_has_reached_timeout(s1, c)
             THEN [s |-> imap_client_unhibernate_failed(s1, c), ret |-> TRUE]
             ELSE LET s2 == IF s1.clients[c].input_pending
                            THEN [s1 EXCEPT !.clients[c].io = "null"]
                            ELSE s1
                  IN  [s |-> imap_client_stop_notify_listening(s2, c),
                       ret |-> FALSE]

move_back_without_timer(s, c, conn_ret) ==
    LET r == imap_client_try_move_back(s, c, conn_ret)
    IN  IF r.ret THEN r.s
        ELSE LET s1 == IF r.s.clients[c].move_back_start = 0
                       THEN [r.s EXCEPT !.clients[c].move_back_start =
                                            r.s.ioloop_time]
                       ELSE r.s
             IN  IF ~s1.clients[c].unhibernate_queued
                 THEN priorityq_add(
                          [s1 EXCEPT !.clients[c].unhibernate_queued = TRUE], c)
                 ELSE s1

move_back_restamps(s, c, conn_ret) ==
    LET r == imap_client_try_move_back(s, c, conn_ret)
    IN  IF r.ret THEN r.s
        ELSE LET s1 == [r.s EXCEPT !.clients[c].move_back_start =
                                       r.s.ioloop_time]
                 s2 == IF ~s1.clients[c].unhibernate_queued
                       THEN priorityq_add(
                                [s1 EXCEPT !.clients[c].unhibernate_queued = TRUE],
                                c)
                       ELSE s1
             IN  [s2 EXCEPT !.to_unhibernate = TRUE]

imap_client_move_back(s, c, conn_ret) ==
    LET r == imap_client_try_move_back(s, c, conn_ret)
    IN  IF r.ret THEN r.s
        ELSE LET s1 == IF r.s.clients[c].move_back_start = 0
                       THEN [r.s EXCEPT !.clients[c].move_back_start =
                                            r.s.ioloop_time]
                       ELSE r.s
                 s2 == IF ~s1.clients[c].unhibernate_queued
                       THEN priorityq_add(
                                [s1 EXCEPT !.clients[c].unhibernate_queued = TRUE],
                                c)
                       ELSE s1
             IN  [s2 EXCEPT !.to_unhibernate = TRUE]

-----------------------------------------------------------------------------
(* imap_client_add_idle_keepalive_timeout, keepalive_timeout *)

imap_client_add_idle_keepalive_timeout(s, c) ==
    IF s.clients[c].imap_idle_notify_interval = 0 THEN s
    ELSE [s EXCEPT !.clients[c].to_keepalive = TRUE,
                   !.obs[c].arms = @ + 1]

keepalive_without_flush_check(s, c, w1, w2) ==
    LET f == o_stream_flush(s, c, w1)
    IN  IF f.ret < 0 THEN imap_client_disconnected(f.s, c)
        ELSE LET w == o_stream_send_str(f.s, c, StillHere, w2)
             IN  IF w.ret < 0 THEN imap_client_disconnected(w.s, c)
                 ELSE imap_client_add_idle_keepalive_timeout(w.s, c)

\* w1, w2: what the socket does in o_stream_flush and in o_stream_send_str
keepalive_timeout(s, c, w1, w2) ==
    LET f == o_stream_flush(s, c, w1)
    IN  IF f.ret < 0 THEN imap_client_disconnected(f.s, c)
        ELSE IF f.ret = 0 THEN f.s
        ELSE LET w == o_stream_send_str(f.s, c, StillHere, w2)
             IN  IF w.ret < 0 THEN imap_client_disconnected(w.s, c)
                 ELSE imap_client_add_idle_keepalive_timeout(
                          [w.s EXCEPT !.obs[c].assert_failed =
                                          @ \/ w.ret # FragLen(StillHere)],
                          c)

-----------------------------------------------------------------------------
(* imap_client_input_idle_cmd, imap_client_input_nonidle,                  *)
(* imap_client_input_notify                                                *)

i_stream_skip_all(s, c, n) == [s EXCEPT !.clients[c].input = <<>>]

i_stream_skip(s, c, n) ==
    [s EXCEPT !.clients[c].input = SubSeq(@, n + 1, Len(@))]

input_done_without_idle_flag(s, c, conn_ret) ==
    imap_client_move_back([s EXCEPT !.clients[c].input_pending = TRUE],
                          c, conn_ret)

\* Lines 456-461 with done == TRUE
input_done(s, c, conn_ret) ==
    imap_client_move_back(
        [s EXCEPT !.clients[c].idle_done = TRUE,
                  !.clients[c].input_pending = TRUE],
        c, conn_ret)

input_doneidle_echoes_new_tag(s, c, new_tag, size, w1, w2) ==
    LET s1 == [s EXCEPT !.clients[c].tag = new_tag]
        f  == o_stream_flush(s1, c, w1)
        w  == IF f.ret > 0
              THEN o_stream_send_str(f.s, c, IdleCompleted(new_tag), w2)
              ELSE f
    IN  IF w.ret < 0 THEN imap_client_disconnected(w.s, c)
        ELSE IF w.ret # FragLen(IdleCompleted(new_tag))
        THEN imap_client_destroy(w.s, c, IMAP_CLIENT_BUFFER_FULL_ERROR)
        ELSE imap_client_add_idle_keepalive_timeout(
                 i_stream_skip(w.s, c, size), c)

\* Lines 431-453 and 461: the DONE+IDLE refresh
input_doneidle(s, c, new_tag, size, w1, w2) ==
    LET old_tag == s.clients[c].tag
        s1 == [s EXCEPT !.clients[c].tag = new_tag]
        f  == o_stream_flush(s1, c, w1)
        w  == IF f.ret > 0
              THEN o_stream_send_str(f.s, c, IdleCompleted(old_tag), w2)
              ELSE f
    IN  IF w.ret < 0 THEN imap_client_disconnected(w.s, c)
        ELSE IF w.ret # FragLen(IdleCompleted(old_tag))
        THEN imap_client_destroy(w.s, c, IMAP_CLIENT_BUFFER_FULL_ERROR)
        ELSE imap_client_add_idle_keepalive_timeout(
                 i_stream_skip(w.s, c, size), c)

\* A session in hibernation proper: watched for input, no way back begun
Hibernating(cl) ==
    /\ cl.alive = "live" /\ cl.io = "idle_cmd"
    /\ ~cl.unhibernate_queued /\ cl.master_conn = "null"

\* chunk: the bytes i_stream_read_bytes() reads from the socket; eof: it then
\* meets EOF or an error; pr: the parser's result; conn_ret: the result of
\* imap_master_connection_init(), when it is called.
imap_client_input_idle_cmd(s, c, chunk, eof, pr, w1, w2, conn_ret) ==
    LET data == s.clients[c].input \o chunk
        size == Len(data)
        s0   == [s EXCEPT !.clients[c].input = data]
    IN  IF size = 0
        THEN (IF eof THEN imap_client_disconnected(s0, c) ELSE s0)
        ELSE LET s1 == [s0 EXCEPT !.clients[c].next_read_threshold = 0,
                                  !.parses = @ + 1,
                                  !.obs[c].wakeups =
                                      IF chunk = <<>> THEN @ ELSE @ + 1,
                                  !.obs[c].parsed = data,
                                  !.obs[c].parse_state = pr.state,
                                  !.obs[c].stayed = FALSE,
                                  !.obs[c].oob = @ \/ pr.oob]
             IN  CASE pr.state = IMAP_CLIENT_INPUT_STATE_UNKNOWN ->
                        [s1 EXCEPT !.clients[c].next_read_threshold = size,
                                   !.obs[c].stayed = Hibernating(s.clients[c])]
                   [] pr.state = IMAP_CLIENT_INPUT_STATE_BAD ->
                        input_done([s1 EXCEPT !.clients[c].bad_done = TRUE],
                                   c, conn_ret)
                   [] pr.state = IMAP_CLIENT_INPUT_STATE_DONE_LF ->
                        input_done(i_stream_skip(s1, c, 4 + 1), c, conn_ret)
                   [] pr.state = IMAP_CLIENT_INPUT_STATE_DONE_CRLF ->
                        input_done(i_stream_skip(s1, c, 4 + 2), c, conn_ret)
                   [] pr.state = IMAP_CLIENT_INPUT_STATE_DONEIDLE ->
                        input_doneidle(s1, c, pr.tag, size, w1, w2)

input_nonidle_skips_input(s, c, chunk, eof, conn_ret) ==
    IF chunk = <<>> /\ eof THEN imap_client_disconnected(s, c)
    ELSE imap_client_move_back(
             [s EXCEPT !.clients[c].input = <<>>,
                       !.clients[c].input_pending = TRUE],
             c, conn_ret)

\* i_stream_read() < 0 when the socket has no byte left and is at EOF
imap_client_input_nonidle(s, c, chunk, eof, conn_ret) ==
    IF chunk = <<>> /\ eof THEN imap_client_disconnected(s, c)
    ELSE imap_client_move_back(
             [s EXCEPT !.clients[c].input = @ \o chunk,
                       !.clients[c].input_pending = TRUE],
             c, conn_ret)

imap_client_input_notify(s, c, conn_ret) == imap_client_move_back(s, c, conn_ret)

-----------------------------------------------------------------------------
(* imap_client_create, imap_client_add_notify_fd, imap_client_create_finish *)

\* p: the imap_client_state handed over, and master_service_anvil_connect()'s
\* result
imap_client_create(s, c, p) ==
    [s EXCEPT
       !.clients[c] = [NoClient("live") EXCEPT
                         !.username = p.username,
                         !.tag = p.tag,
                         !.idle_cmd = p.idle_cmd,
                         !.imap_idle_notify_interval =
                             p.imap_idle_notify_interval,
                         !.anvil_sent = p.anvil],
       !.obs[c].anvil_connects = IF p.anvil THEN @ + 1 ELSE @,
       !.obs[c].idle_cmd = p.idle_cmd,
       !.imap_clients = <<c>> \o @]

imap_client_add_notify_fd(s, c) ==
    [s EXCEPT !.clients[c].notifys = Append(@, [fd |-> TRUE, io |-> FALSE])]

imap_client_create_finish(s, c) ==
    LET s1 == [s EXCEPT
                 !.clients[c].ioloop_ctx = TRUE,
                 !.clients[c].io =
                     IF s.clients[c].idle_cmd THEN "idle_cmd" ELSE "nonidle"]
        s2 == imap_client_add_idle_keepalive_timeout(s1, c)
    IN  [s2 EXCEPT !.clients[c].notifys =
            [i \in 1..Len(@) |-> [@[i] EXCEPT !.io = TRUE]]]

-----------------------------------------------------------------------------
(* imap_clients_unhibernate, imap_client_kick, imap_clients_kick,          *)
(* imap_clients_deinit                                                     *)

unhibernate_one_attempt(s, conns) ==
    IF s.unhibernate_queue = <<>>
    THEN [s EXCEPT !.to_unhibernate = FALSE]
    ELSE LET r == imap_client_try_move_back(s, priorityq_peek(s), Head(conns))
         IN  IF r.s.unhibernate_queue = <<>>
             THEN [r.s EXCEPT !.to_unhibernate = FALSE]
             ELSE r.s

RECURSIVE unhibernate_keeps_timer(_, _)
unhibernate_keeps_timer(s, conns) ==
    IF s.unhibernate_queue = <<>>
    THEN s
    ELSE LET r == imap_client_try_move_back(s, priorityq_peek(s), Head(conns))
         IN  IF ~r.ret THEN r.s
             ELSE unhibernate_keeps_timer(r.s, Tail(conns))

\* conns: the results of the successive imap_master_connection_init() calls
RECURSIVE imap_clients_unhibernate(_, _)
imap_clients_unhibernate(s, conns) ==
    IF s.unhibernate_queue = <<>>
    THEN [s EXCEPT !.to_unhibernate = FALSE]
    ELSE LET r == imap_client_try_move_back(s, priorityq_peek(s), Head(conns))
         IN  IF ~r.ret THEN r.s
             ELSE imap_clients_unhibernate(r.s, Tail(conns))

\* o_stream_nsend_str() ignores the result of the write
imap_client_kick(s, c, shutdown, w) ==
    LET s1 == o_stream_send_str(s, c, Bye(MASTER_SERVICE_SHUTTING_DOWN_MSG), w).s
    IN  imap_client_destroy([s1 EXCEPT !.obs[c].byes = @ + 1], c,
            IF shutdown THEN MASTER_SERVICE_SHUTTING_DOWN_MSG
            ELSE MASTER_SERVICE_USER_KICKED_MSG)

RECURSIVE kick_from_needs_guid(_, _, _, _, _)
kick_from_needs_guid(s, list, user, guid, w) ==
    IF list = <<>> THEN s
    ELSE LET c == Head(list)
             s1 == IF s.clients[c].username = user /\ guid = c
                   THEN imap_client_kick(s, c, FALSE, w)
                   ELSE s
         IN  kick_from_needs_guid(s1, Tail(list), user, guid, w)

RECURSIVE kick_from_ignores_guid(_, _, _, _, _)
kick_from_ignores_guid(s, list, user, guid, w) ==
    IF list = <<>> THEN s
    ELSE LET c == Head(list)
             s1 == IF s.clients[c].username = user
                   THEN imap_client_kick(s, c, FALSE, w)
                   ELSE s
         IN  kick_from_ignores_guid(s1, Tail(list), user, guid, w)

\* guid_128_is_empty(conn_guid) is guid = 0; a session's anvil_conn_guid is
\* its number.  list: the sessions still to visit (client = next).
RECURSIVE imap_clients_kick_from(_, _, _, _, _)
imap_clients_kick_from(s, list, user, guid, w) ==
    IF list = <<>> THEN s
    ELSE LET c == Head(list)
             s1 == IF s.clients[c].username = user /\ (guid = 0 \/ guid = c)
                   THEN imap_client_kick(s, c, FALSE, w)
                   ELSE s
         IN  imap_clients_kick_from(s1, Tail(list), user, guid, w)

\* The new state and the function's return value (count is never incremented).
imap_clients_kick(s, user, guid, w) ==
    [s |-> imap_clients_kick_from(s, s.imap_clients, user, guid, w),
     count |-> 0]

deinit_kicks_head_only(s, w) ==
    IF s.imap_clients # <<>>
    THEN [imap_client_kick(s, Head(s.imap_clients), TRUE, w)
             EXCEPT !.to_unhibernate = FALSE]
    ELSE [s EXCEPT !.to_unhibernate = FALSE]

RECURSIVE imap_clients_deinit(_, _)
imap_clients_deinit(s, w) ==
    IF s.imap_clients # <<>>
    THEN imap_clients_deinit(imap_client_kick(s, Head(s.imap_clients), TRUE, w),
                             w)
    ELSE [s EXCEPT !.to_unhibernate = FALSE]

-----------------------------------------------------------------------------
(* The environment: the remote IMAP client, the clock, the sockets *)

\* What a remote client sends in one go.
DoneCrlf == S_DONE \o <<CR, LF>>
DoneLf == S_DONE \o <<LF>>
DoneIdle(done, tag, nl) == ((done \o tag) \o <<SP>>) \o (S_IDLE \o nl)

TargetScripts ==
    {DoneCrlf, DoneLf}
    \cup {DoneIdle(d, tg, nl) : d \in {DoneCrlf, DoneLf}, tg \in Tags,
                                nl \in {<<CR, LF>>, <<LF>>}}

OtherScripts ==
    {<<"d", "o", "n", "e", CR, LF>>,          \* lower case
     <<"F", "O", "O", CR, LF>>,               \* not DONE
     S_DONE \o <<"X">>,                       \* DONE, then no CR or LF
     S_DONE \o <<CR, "X">>,                   \* CR, then no LF
     DoneCrlf \o <<"a", CR, LF>>,             \* a tag, then no SP
     DoneCrlf \o <<"a", SP, "N", "O", "O", "P", CR, LF>>,
     DoneIdle(DoneCrlf, <<"b">>, <<CR, LF>>) \o <<"X">>}

Scripts == TargetScripts \cup OtherScripts

\* The instants the clock shows.
Clock ==
    {1 + a * ShortStep + b * IMAP_CLIENT_MOVE_BACK_WITHOUT_INPUT_TIMEOUT_SECS :
        a \in 0..ShortSteps, b \in 0..LongSteps}

-----------------------------------------------------------------------------
(* Actions: one per entry point or event-loop callback *)

Live(c) == clients[c].alive = "live"

Create(c, p) ==
    /\ ~deinit_done
    /\ clients[c].alive = "none"
    /\ \A d \in Clients : d < c => clients[d].alive # "none"
    /\ Becomes(imap_client_create(State, c, p))
    /\ peer' = PeerAfter([clients |-> clients'], peer)
    /\ UNCHANGED deinit_done

AddNotifyFd(c) ==
    /\ ~deinit_done
    /\ Live(c) /\ ~clients[c].ioloop_ctx
    /\ Len(clients[c].notifys) < MaxNotify
    /\ Becomes(imap_client_add_notify_fd(State, c))
    /\ peer' = PeerAfter([clients |-> clients'], peer)
    /\ UNCHANGED deinit_done

CreateFinish(c) ==
    /\ ~deinit_done
    /\ Live(c) /\ ~clients[c].ioloop_ctx
    /\ Becomes(imap_client_create_finish(State, c))
    /\ peer' = PeerAfter([clients |-> clients'], peer)
    /\ UNCHANGED deinit_done

PeerSend(c, script) ==
    /\ ~deinit_done
    /\ Live(c) /\ clients[c].io # "null"
    /\ peer[c].bytes = <<>> /\ ~peer[c].closed
    /\ peer' = [peer EXCEPT ![c].bytes = script]
    /\ obs' = [obs EXCEPT ![c].script = script, ![c].wakeups = 0]
    /\ UNCHANGED <<clients, imap_clients, unhibernate_queue, to_unhibernate,
                   ioloop_time, deinit_done>>

PeerClose(c) ==
    /\ ~deinit_done
    /\ Live(c) /\ clients[c].io # "null"
    /\ ~peer[c].closed
    /\ peer' = [peer EXCEPT ![c].closed = TRUE]
    /\ UNCHANGED <<clients, imap_clients, unhibernate_queue, to_unhibernate,
                   ioloop_time, obs, deinit_done>>

\* The socket is readable: n bytes have arrived, or it is at EOF.
Readable(c, n) ==
    /\ n \in 0..Len(peer[c].bytes)
    /\ Len(clients[c].input) + n <= IMAP_MAX_INBUF
    /\ n = 0 => (peer[c].bytes = <<>> /\ peer[c].closed)

AtEof(c, n) == peer[c].closed /\ n = Len(peer[c].bytes)

Take(c, n) ==
    peer' = PeerAfter([clients |-> clients'],
                      [peer EXCEPT ![c].bytes = SubSeq(@, n + 1, Len(@))])

ClientInputIdle(c, n) ==
    /\ ~deinit_done
    /\ Live(c) /\ clients[c].io = "idle_cmd"
    /\ Readable(c, n)
    /\ LET chunk == SubSeq(peer[c].bytes, 1, n)
           data  == clients[c].input \o chunk
       IN  \E pr \in (IF data = <<>>
                      THEN {ParseResult("(none)", NoTag, FALSE)}
                      ELSE imap_client_input_parse(data)),
              w1 \in SockResults, w2 \in SockResults, conn_ret \in ConnResults :
             /\ pr.state = IMAP_CLIENT_INPUT_STATE_DONEIDLE
                    => obs[c].written < MaxOut
             /\ Becomes(imap_client_input_idle_cmd(
                            State, c, chunk, AtEof(c, n), pr, w1, w2, conn_ret))
    /\ Take(c, n)
    /\ UNCHANGED deinit_done

ClientInputNonIdle(c, n) ==
    /\ ~deinit_done
    /\ Live(c) /\ clients[c].io = "nonidle"
    /\ Readable(c, n)
    /\ \E conn_ret \in ConnResults :
          Becomes(imap_client_input_nonidle(
                      State, c, SubSeq(peer[c].bytes, 1, n), AtEof(c, n),
                      conn_ret))
    /\ Take(c, n)
    /\ UNCHANGED deinit_done

NotifyInput(c) ==
    /\ ~deinit_done
    /\ Live(c)
    /\ \E i \in 1..Len(clients[c].notifys) : clients[c].notifys[i].io
    /\ \E conn_ret \in ConnResults :
          Becomes(imap_client_input_notify(State, c, conn_ret))
    /\ peer' = PeerAfter([clients |-> clients'], peer)
    /\ UNCHANGED deinit_done

KeepaliveTimeout(c) ==
    /\ ~deinit_done
    /\ Live(c) /\ clients[c].to_keepalive
    /\ obs[c].written < MaxOut
    /\ \E w1 \in SockResults, w2 \in SockResults :
          Becomes(keepalive_timeout(State, c, w1, w2))
    /\ peer' = PeerAfter([clients |-> clients'], peer)
    /\ UNCHANGED deinit_done

\* The output stream's own write watcher: the socket takes what is buffered.
OutputFlush(c) ==
    /\ ~deinit_done
    /\ Live(c) /\ clients[c].output # <<>>
    /\ Becomes(o_stream_flush(State, c, "ok").s)
    /\ peer' = PeerAfter([clients |-> clients'], peer)
    /\ UNCHANGED deinit_done

RetryTick ==
    /\ ~deinit_done
    /\ to_unhibernate
    /\ \E conns \in [1..NClients -> ConnResults] :
          Becomes(imap_clients_unhibernate(State, conns))
    /\ peer' = PeerAfter([clients |-> clients'], peer)
    /\ UNCHANGED deinit_done

MasterSendCallback(c) ==
    /\ ~deinit_done
    /\ Live(c) /\ clients[c].master_conn = "connected"
    /\ \E fd_ret \in {-1, 1} :
          Becomes(imap_client_move_back_send_callback(State, c, fd_ret))
    /\ peer' = PeerAfter([clients |-> clients'], peer)
    /\ UNCHANGED deinit_done

\* The master answers '+' only to a request it has received.
MasterReadCallback(c) ==
    /\ ~deinit_done
    /\ Live(c) /\ clients[c].master_conn # "null"
    /\ \E plus \in BOOLEAN :
          /\ plus => clients[c].master_conn = "fd_sent"
          /\ Becomes(imap_client_move_back_read_callback(State, c, plus))
    /\ peer' = PeerAfter([clients |-> clients'], peer)
    /\ UNCHANGED deinit_done

Kick(user, guid) ==
    /\ ~deinit_done
    /\ \E w \in SockResults :
          Becomes(imap_clients_kick(State, user, guid, w).s)
    /\ peer' = PeerAfter([clients |-> clients'], peer)
    /\ UNCHANGED deinit_done

Deinit ==
    /\ ~deinit_done
    /\ \E w \in SockResults : Becomes(imap_clients_deinit(State, w))
    /\ deinit_done' = TRUE
    /\ peer' = PeerAfter([clients |-> clients'], peer)

\* The clock is read only to stamp move_back_start and to compare with it, so
\* only its advance while a session waits in the queue is of any effect.
AdvanceTime ==
    /\ ~deinit_done
    /\ unhibernate_queue # <<>>
    /\ \E t \in Clock : t > ioloop_time /\ ioloop_time' = t
    /\ UNCHANGED <<clients, imap_clients, unhibernate_queue, to_unhibernate,
                   peer, obs, deinit_done>>

-----------------------------------------------------------------------------
(* Specifications *)

Init ==
    /\ clients = [c \in Clients |-> NoClient("none")]
    /\ imap_clients = <<>>
    /\ unhibernate_queue = <<>>
    /\ to_unhibernate = FALSE
    /\ ioloop_time = 1
    /\ peer = [c \in Clients |-> PeerIdle]
    /\ obs = [c \in Clients |-> NoObs]
    /\ deinit_done = FALSE

\* The life of one session: every kind of session, the client's input arriving
\* whole.
LifeProfiles ==
    [username : {"alice"}, tag : {<<"a">>}, idle_cmd : BOOLEAN,
     imap_idle_notify_interval : {0, 120}, anvil : BOOLEAN]

LifeScripts ==
    {DoneCrlf, <<"F", "O", "O", CR, LF>>, DoneIdle(DoneCrlf, <<"b">>, <<CR, LF>>)}

Whole(c) == {Len(peer[c].bytes)}

Next ==
    \/ \E p \in LifeProfiles : Create(1, p)
    \/ AddNotifyFd(1)
    \/ CreateFinish(1)
    \/ \E sc \in LifeScripts : PeerSend(1, sc)
    \/ PeerClose(1)
    \/ \E n \in Whole(1) : ClientInputIdle(1, n)
    \/ \E n \in Whole(1) : ClientInputNonIdle(1, n)
    \/ NotifyInput(1)
    \/ KeepaliveTimeout(1)
    \/ OutputFlush(1)
    \/ RetryTick
    \/ MasterSendCallback(1)
    \/ MasterReadCallback(1)
    \/ \E u \in Users, g \in {0, 1} : Kick(u, g)
    \/ Deinit
    \/ AdvanceTime

Spec == Init /\ [][Next]_vars

\* Several sessions and the retry queue: IDLE sessions without keepalive, a
\* clean DONE arriving whole.
QueueProfiles ==
    [username : {"alice"}, tag : {<<"a">>}, idle_cmd : {TRUE},
     imap_idle_notify_interval : {0}, anvil : {FALSE}]

QueueScripts == {DoneCrlf}

NextQueue ==
    \/ \E c \in Clients, p \in QueueProfiles : Create(c, p)
    \/ \E c \in Clients : AddNotifyFd(c)
    \/ \E c \in Clients : CreateFinish(c)
    \/ \E c \in Clients, sc \in QueueScripts : PeerSend(c, sc)
    \/ \E c \in Clients : PeerClose(c)
    \/ \E c \in Clients : \E n \in Whole(c) : ClientInputIdle(c, n)
    \/ \E c \in Clients : NotifyInput(c)
    \/ RetryTick
    \/ \E c \in Clients : MasterSendCallback(c)
    \/ \E c \in Clients : MasterReadCallback(c)
    \/ \E g \in {0} \cup Clients : Kick("alice", g)
    \/ Deinit
    \/ AdvanceTime

SpecQueue == Init /\ [][NextQueue]_vars

\* The input of one IDLE session: every script, in every chunking.
ParseProfiles ==
    [username : {"alice"}, tag : {<<"a">>}, idle_cmd : {TRUE},
     imap_idle_notify_interval : {0}, anvil : {FALSE}]

AnyChunk(c) == 0..Len(peer[c].bytes)

NextParse ==
    \/ \E p \in ParseProfiles : Create(1, p)
    \/ CreateFinish(1)
    \/ \E sc \in Scripts : PeerSend(1, sc)
    \/ PeerClose(1)
    \/ \E n \in AnyChunk(1) : ClientInputIdle(1, n)
    \/ RetryTick
    \/ MasterSendCallback(1)
    \/ MasterReadCallback(1)

SpecParse == Init /\ [][NextParse]_vars

\* One IDLE session whose client refreshes IDLE under changing tags, with
\* and without a keepalive timer, until it sends DONE or goes away.
RefreshProfiles ==
    [username : {"alice"}, tag : {<<"a">>}, idle_cmd : {TRUE},
     imap_idle_notify_interval : {0, 120}, anvil : {FALSE}]

RefreshScripts ==
    {DoneCrlf, DoneIdle(DoneCrlf, <<"b">>, <<CR, LF>>),
     DoneIdle(DoneLf, <<"a">>, <<LF>>)}

NextRefresh ==
    \/ \E p \in RefreshProfiles : Create(1, p)
    \/ CreateFinish(1)
    \/ \E sc \in RefreshScripts : PeerSend(1, sc)
    \/ PeerClose(1)
    \/ \E n \in Whole(1) : ClientInputIdle(1, n)
    \/ KeepaliveTimeout(1)
    \/ OutputFlush(1)
    \/ RetryTick
    \/ MasterSendCallback(1)
    \/ MasterReadCallback(1)
    \/ AdvanceTime

SpecRefresh == Init /\ [][NextRefresh]_vars

\* A client that goes away: one IDLE session whose client sends part of a
\* DONE line or all of it and closes the connection.  The event loop is fair:
\* a callback whose watcher or timer is ready, and whose call would change
\* the state, is called.
EofScripts == {<<"D">>, S_DONE \o <<CR>>, DoneCrlf}

NextEof ==
    \/ \E p \in ParseProfiles : Create(1, p)
    \/ CreateFinish(1)
    \/ \E sc \in EofScripts : PeerSend(1, sc)
    \/ PeerClose(1)
    \/ \E n \in AnyChunk(1) : ClientInputIdle(1, n)
    \/ RetryTick
    \/ MasterSendCallback(1)
    \/ MasterReadCallback(1)
    \/ AdvanceTime

SpecEof ==
    /\ Init /\ [][NextEof]_vars
    /\ WF_vars(\E n \in AnyChunk(1) : ClientInputIdle(1, n))
    /\ WF_vars(RetryTick)
    /\ WF_vars(MasterSendCallback(1))
    /\ WF_vars(MasterReadCallback(1))
    /\ WF_vars(AdvanceTime)

\* What the core writes to a client: one IDLE session whose client refreshes
\* IDLE under tags of its own choice, the tag empty or holding a line feed
\* among them, with and without a keepalive timer, and which is kicked in
\* the end.
FragmentScripts ==
    {DoneIdle(DoneCrlf, <<"b">>, <<CR, LF>>),
     DoneIdle(DoneCrlf, <<>>, <<CR, LF>>),
     DoneIdle(DoneLf, <<"a", LF, "b">>, <<LF>>)}

NextFragments ==
    \/ \E p \in RefreshProfiles : Create(1, p)
    \/ CreateFinish(1)
    \/ \E sc \in FragmentScripts : PeerSend(1, sc)
    \/ \E n \in Whole(1) : ClientInputIdle(1, n)
    \/ KeepaliveTimeout(1)
    \/ OutputFlush(1)
    \/ \E u \in Users, g \in {0, 1} : Kick(u, g)
    \/ Deinit

SpecFragments == Init /\ [][NextFragments]_vars

-----------------------------------------------------------------------------
(* Properties *)

\* The retry queue under an event loop that keeps running: two IDLE sessions,
\* notifies and a clean DONE.  Time advances while a session waits, the
\* master's callbacks are called for every connection that was made, and the
\* retry timer keeps firing; the master socket may be busy at every attempt,
\* so the only tick that is sure to come is one that finds it busy.  A way
\* back is begun only while the clock can still pass the longer timeout.
CanWaitOut ==
    \E t \in Clock :
        t - ioloop_time > IMAP_CLIENT_MOVE_BACK_WITHOUT_INPUT_TIMEOUT_SECS

RetryTickBusy ==
    /\ ~deinit_done
    /\ to_unhibernate
    /\ Becomes(imap_clients_unhibernate(State, [i \in 1..NClients |-> 0]))
    /\ peer' = PeerAfter([clients |-> clients'], peer)
    /\ UNCHANGED deinit_done

NextRetry ==
    \/ \E c \in Clients, p \in QueueProfiles : Create(c, p)
    \/ \E c \in Clients : AddNotifyFd(c)
    \/ \E c \in Clients : CreateFinish(c)
    \/ \E c \in Clients, sc \in QueueScripts : PeerSend(c, sc)
    \/ \E c \in Clients : CanWaitOut /\ \E n \in Whole(c) : ClientInputIdle(c, n)
    \/ \E c \in Clients : CanWaitOut /\ NotifyInput(c)
    \/ RetryTick
    \/ \E c \in Clients : MasterSendCallback(c)
    \/ \E c \in Clients : MasterReadCallback(c)
    \/ AdvanceTime

\* The master connection's callbacks of one session
MasterCallback(c) == MasterSendCallback(c) \/ MasterReadCallback(c)

\* ENABLED <<RetryTickBusy>>_vars as a state predicate: the timer is armed and
\* the tick that finds the master busy would change the state
RetryTickBusyChanges ==
    LET s2 == imap_clients_unhibernate(State, [i \in 1..NClients |-> 0])
    IN  \/ s2.clients # clients
        \/ s2.imap_clients # imap_clients
        \/ s2.unhibernate_queue # unhibernate_queue
        \/ s2.to_unhibernate # to_unhibernate
        \/ s2.obs # obs

RetryTickReady == ~deinit_done /\ to_unhibernate /\ RetryTickBusyChanges

\* ENABLED <<MasterCallback(c)>>_vars: a master connection is in flight
MasterCallbackReady(c) ==
    ~deinit_done /\ Live(c) /\ clients[c].master_conn # "null"

\* Weak fairness of the clock, of the busy tick and of each session's master
\* callbacks; for the last two ENABLED is written out as the state predicates
\* above (WF_vars(A) is <>[](ENABLED <<A>>_vars) => []<><<A>>_vars).
SpecRetry ==
    /\ Init /\ [][NextRetry]_vars
    /\ WF_vars(AdvanceTime)
    /\ (<>[]RetryTickReady => []<><<RetryTickBusy>>_vars)
    /\ \A c \in Clients :
          (<>[]MasterCallbackReady(c) => []<><<MasterCallback(c)>>_vars)

Freed(c) == clients[c].alive = "freed"

\* C1, as claimed: a session destroyed by the '+' reply has its fd left
\* unclosed by the core; destroyed otherwise, the fd is shut down (SHUT_RDWR) if
\* shutdown_fd_on_destroy was true at the destruction and is closed if not.
C1_FdDispositionAsClaimed ==
    \A c \in Clients :
        Freed(c) =>
            IF obs[c].plus_reply THEN ~obs[c].fd_closed
            ELSE IF obs[c].shut_at_destroy THEN obs[c].fd_shutdown
            ELSE obs[c].fd_closed

\* C1, amended: every destruction closes the core's descriptor of the client
\* socket.  After the '+' reply it is closed without a shutdown (the master holds
\* its own copy of the passed descriptor); otherwise it is shut down (SHUT_RDWR)
\* before the close exactly if shutdown_fd_on_destroy was true at the
\* destruction.  A live session's fd is neither shut down nor closed.
C1_FdDisposition ==
    \A c \in Clients :
        /\ Freed(c) =>
              /\ obs[c].fd_closed
              /\ obs[c].plus_reply => ~obs[c].fd_shutdown
              /\ ~obs[c].plus_reply =>
                     (obs[c].fd_shutdown <=> obs[c].shut_at_destroy)
        /\ ~Freed(c) => ~obs[c].fd_closed /\ ~obs[c].fd_shutdown

C1_Witness ==
    \E c \in Clients :
        Freed(c) /\ obs[c].plus_reply /\ obs[c].fd_sent = 1 /\ obs[c].fd_closed

\* C6: a destroyed session has had exactly one anvil disconnect if an anvil
\* connect was sent for it and none otherwise, whatever destroyed it; a session
\* not yet destroyed has had none.
C6_AnvilDisconnect ==
    \A c \in Clients :
        /\ Freed(c) => obs[c].anvil_disconnects = obs[c].anvil_connects
        /\ ~Freed(c) => obs[c].anvil_disconnects = 0
        /\ obs[c].anvil_connects \in {0, 1}

C6_Witness ==
    /\ deinit_done
    /\ \E c \in Clients :
          Freed(c) /\ obs[c].anvil_connects = 1 /\ obs[c].anvil_disconnects = 1

\* C7: shutdown_fd_on_destroy is true in a live session exactly if its fd has
\* been sent to the master by a successful fd_send(); it becomes true at most
\* once, as the fd is sent at most once; and it is still true at a destruction
\* after the fd was sent unless the destruction is the '+' reply's (so a failed
\* fd_send() never leads to a shutdown, and only '+' resets the flag).
C7_ShutdownFlag ==
    \A c \in Clients :
        /\ Live(c) => (clients[c].shutdown_fd_on_destroy <=> obs[c].fd_sent = 1)
        /\ obs[c].shut_set = obs[c].fd_sent
        /\ obs[c].fd_sent \in {0, 1}
        /\ Freed(c) =>
              (obs[c].shut_at_destroy <=>
                   (obs[c].fd_sent = 1 /\ ~obs[c].plus_reply))

C7_Witness ==
    \E c \in Clients :
        /\ Live(c) /\ clients[c].shutdown_fd_on_destroy
        /\ clients[c].master_conn = "fd_sent"

\* C8: an unhibernation attempt made with output buffered destroys the session
\* with "Client output buffer is full" and makes no master connection; a master
\* connection exists only with an empty output buffer, and the assertion of
\* line 207 never fails.
C8_NoHandoffWithOutput ==
    \A c \in Clients :
        /\ obs[c].attempt_buffered =>
              /\ Freed(c)
              /\ obs[c].reason = IMAP_CLIENT_BUFFER_FULL_ERROR
              /\ obs[c].conn_inits = 0
              /\ ~obs[c].record.sent
        /\ ~obs[c].conn_buffered
        /\ ~obs[c].assert_failed
        /\ (Live(c) /\ clients[c].master_conn # "null") =>
               clients[c].output = <<>>

C8_Witness ==
    \E c \in Clients :
        /\ obs[c].attempt_buffered
        /\ Freed(c) /\ obs[c].reason = IMAP_CLIENT_BUFFER_FULL_ERROR

\* C10: the handoff record holds "bad-done" exactly if the client's input was
\* classified BAD, no flag if it was classified DONE_LF or DONE_CRLF,
\* "idle-continue" exactly if the session has idle_cmd and the client has not
\* ended the IDLE (no BAD or DONE classification), and never both flags.
InputEndedIdle(c) ==
    obs[c].parse_state \in {IMAP_CLIENT_INPUT_STATE_BAD,
                            IMAP_CLIENT_INPUT_STATE_DONE_LF,
                            IMAP_CLIENT_INPUT_STATE_DONE_CRLF}

C10_HandoffFlag ==
    \A c \in Clients :
        obs[c].record.sent =>
            /\ "bad-done" \in obs[c].record.flags
                   <=> obs[c].parse_state = IMAP_CLIENT_INPUT_STATE_BAD
            /\ obs[c].parse_state \in {IMAP_CLIENT_INPUT_STATE_DONE_LF,
                                       IMAP_CLIENT_INPUT_STATE_DONE_CRLF}
                   => obs[c].record.flags = {}
            /\ "idle-continue" \in obs[c].record.flags
                   <=> (obs[c].idle_cmd /\ ~InputEndedIdle(c))
            /\ Cardinality(obs[c].record.flags) <= 1

C10_Witness ==
    \E c \in Clients :
        /\ obs[c].record.sent
        /\ obs[c].record.flags = {"bad-done"}
        /\ obs[c].parse_state = IMAP_CLIENT_INPUT_STATE_BAD

InQueue(c) == \E i \in 1..Len(unhibernate_queue) : unhibernate_queue[i] = c

DeadlineElapsed(cl, now) ==
    cl.move_back_start # 0 /\ now - cl.move_back_start > move_back_timeout_secs(cl)

\* C2, as claimed: no session stays in the retry queue across a retry tick that
\* runs after its deadline move_back_start + T(input_pending): whenever the
\* retry timer is armed, a run of imap_clients_unhibernate leaves no session
\* queued whose deadline has elapsed, whatever the master socket answers.  (A
\* tick whose head defers changes nothing, so this is stated of the tick's
\* result in every state rather than of the steps that change the state.)
C2_NoQueuedPastDeadline ==
    (to_unhibernate /\ ~deinit_done) =>
        \A conns \in [1..NClients -> ConnResults] :
            LET s2 == imap_clients_unhibernate(State, conns)
            IN  \A c \in Clients :
                    (s2.clients[c].alive = "live"
                         /\ s2.clients[c].unhibernate_queued)
                        => ~DeadlineElapsed(s2.clients[c], s2.ioloop_time)

\* C3, as claimed: the head of the retry queue has the smallest deadline
\* move_back_start + T(input_pending) of all queued sessions, T taken with each
\* session's current input_pending.
C3_HeadHasSmallestDeadline ==
    \A i \in 1..Len(unhibernate_queue) :
        unhibernate_deadline(clients[unhibernate_queue[1]])
            <= unhibernate_deadline(clients[unhibernate_queue[i]])

\* C4: a session is in the retry queue exactly if it is live and its
\* unhibernate_queued flag is true; no session is in the queue twice; a
\* destroyed session is not in the queue.
C4_QueuedIffFlag ==
    /\ \A c \in Clients :
          InQueue(c) <=> (Live(c) /\ clients[c].unhibernate_queued)
    /\ \A i, j \in 1..Len(unhibernate_queue) :
          unhibernate_queue[i] = unhibernate_queue[j] => i = j

C4_Witness ==
    /\ Len(unhibernate_queue) = 2
    /\ \A c \in Clients : Live(c) /\ clients[c].unhibernate_queued

IsPrefix(d, sc) == Len(d) <= Len(sc) /\ SubSeq(sc, 1, Len(d)) = d

HasByte(d, b) == \E i \in 1..Len(d) : d[i] = b

ExpectedState(sc) ==
    IF sc = DoneCrlf THEN IMAP_CLIENT_INPUT_STATE_DONE_CRLF
    ELSE IF sc = DoneLf THEN IMAP_CLIENT_INPUT_STATE_DONE_LF
    ELSE IMAP_CLIENT_INPUT_STATE_DONEIDLE

\* C5, as claimed: while a client sends DONE\r\n, DONE\n or
\* DONE[\r]\n<tag> IDLE[\r]\n in any chunks, a wakeup that finds a proper prefix
\* of it buffered classifies UNKNOWN and leaves the session hibernating, and the
\* wakeup that finds all of it classifies DONE_CRLF, DONE_LF or DONEIDLE.
C5_ChunkedInputAsClaimed ==
    \A c \in Clients :
        LET sc == obs[c].script
            d  == obs[c].parsed
        IN  (sc \in TargetScripts /\ obs[c].wakeups > 0 /\ IsPrefix(d, sc)) =>
                IF d = sc THEN obs[c].parse_state = ExpectedState(sc)
                ELSE /\ obs[c].parse_state = IMAP_CLIENT_INPUT_STATE_UNKNOWN
                     /\ obs[c].stayed

\* C5, amended: the same, for the chunkings in which the LF that ends DONE
\* arrives in the last chunk: a wakeup that finds buffered a proper prefix
\* without that LF classifies UNKNOWN and leaves the session hibernating, and
\* the wakeup that finds the whole string classifies DONE_CRLF, DONE_LF or
\* DONEIDLE.  (For DONE\r\n and DONE\n these are all chunkings.)
C5_ChunkedInput ==
    \A c \in Clients :
        LET sc == obs[c].script
            d  == obs[c].parsed
        IN  (sc \in TargetScripts /\ obs[c].wakeups > 0 /\ IsPrefix(d, sc)) =>
                /\ d = sc => obs[c].parse_state = ExpectedState(sc)
                /\ (d # sc /\ ~HasByte(d, LF)) =>
                       /\ obs[c].parse_state = IMAP_CLIENT_INPUT_STATE_UNKNOWN
                       /\ obs[c].stayed

C5_Witness ==
    \E c \in Clients :
        /\ obs[c].script = DoneIdle(DoneCrlf, <<"b">>, <<CR, LF>>)
        /\ obs[c].parsed = obs[c].script
        /\ obs[c].wakeups = 3
        /\ obs[c].parse_state = IMAP_CLIENT_INPUT_STATE_DONEIDLE

\* C9: a DONE+IDLE refresh that arrives in one read on a hibernating IDLE
\* session and whose output the socket takes in full: the client has then
\* received "<t> OK Idle completed.\r\n+ idling\r\n" with <t> the tag in force
\* before the refresh, the session's tag is the refresh's tag, the session is
\* still hibernating with idle_done, input_pending and move_back_start
\* unchanged, its input is consumed, the keepalive timer is started again (if
\* the session has one: imap_idle_notify_interval > 0), and no master
\* connection has been made.  By induction the same holds of any sequence.
RefreshStep(c) ==
    /\ Hibernating(clients[c])
    /\ obs[c].wakeups = 0 /\ obs'[c].wakeups = 1
    /\ obs'[c].parse_state = IMAP_CLIENT_INPUT_STATE_DONEIDLE
    /\ clients'[c].alive = "live" /\ clients'[c].output = <<>>

C9_IdleRefresh ==
    [][\A c \in Clients :
          RefreshStep(c) =>
              /\ obs'[c].wire =
                     (obs[c].wire \o clients[c].output)
                         \o <<IdleCompleted(clients[c].tag)>>
              /\ \E d \in {DoneCrlf, DoneLf}, nl \in {<<CR, LF>>, <<LF>>} :
                     obs'[c].parsed = DoneIdle(d, clients'[c].tag, nl)
              /\ Hibernating(clients'[c])
              /\ clients'[c].input = <<>>
              /\ clients'[c].idle_done = clients[c].idle_done
              /\ clients'[c].input_pending = clients[c].input_pending
              /\ clients'[c].move_back_start = clients[c].move_back_start
              /\ clients'[c].to_keepalive =
                     (clients[c].imap_idle_notify_interval > 0)
              /\ obs'[c].arms = obs[c].arms +
                     (IF clients[c].imap_idle_notify_interval > 0 THEN 1 ELSE 0)
              /\ obs'[c].conn_inits = 0 /\ ~obs'[c].record.sent]_vars

C9_Witness ==
    \E c \in Clients :
        /\ Hibernating(clients[c])
        /\ obs[c].wire = <<IdleCompleted(<<"a">>), IdleCompleted(<<"b">>)>>
        /\ clients[c].tag = <<"a">>
        /\ clients[c].to_keepalive

NotifyWatched(cl) == \A i \in 1..Len(cl.notifys) : cl.notifys[i].io /\ cl.notifys[i].fd

NotifyStopped(cl) ==
    \A i \in 1..Len(cl.notifys) : ~cl.notifys[i].io /\ ~cl.notifys[i].fd

\* C11, as claimed: while a session waits in the retry queue, all its notify
\* watchers are registered and its notify fds are open.
C11_NotifyKeptWhileQueued ==
    \A c \in Clients :
        (Live(c) /\ clients[c].unhibernate_queued) => NotifyWatched(clients[c])

\* C11, amended: while a session waits in the retry queue, none of its notify
\* watchers is registered and all its notify fds are closed; what is kept is
\* the client I/O watcher, exactly if the session has no client input pending
\* (it was queued by a notify).
C11_NotifyStoppedWhileQueued ==
    \A c \in Clients :
        (Live(c) /\ clients[c].unhibernate_queued) =>
            /\ NotifyStopped(clients[c])
            /\ clients[c].io # "null" <=> ~clients[c].input_pending

C11_Witness ==
    \E c \in Clients :
        /\ Live(c) /\ clients[c].unhibernate_queued
        /\ Len(clients[c].notifys) = MaxNotify
        /\ NotifyStopped(clients[c])
        /\ clients[c].io = "idle_cmd"

Registered(s, c) == \E i \in 1..Len(s.imap_clients) : s.imap_clients[i] = c

Queued(s, c) == \E i \in 1..Len(s.unhibernate_queue) : s.unhibernate_queue[i] = c

\* conn_guid values: 0 is the empty guid, a session's guid is its number
Guids == {0} \cup Clients

KickMatches(c, user, guid) ==
    clients[c].username = user /\ (guid = 0 \/ guid = c)

\* C12: in every state, imap_clients_kick(user, conn_guid) destroys every
\* registered session with that username and, unless conn_guid is empty, that
\* guid, whatever the session is doing (hibernating, queued, master connection
\* in flight) and whatever the socket does with the BYE line: afterwards it is
\* freed with reason "Kicked", once, and is in neither the list nor the queue.
C12_KickDestroysMatching ==
    \A user \in Users, guid \in Guids, w \in SockResults :
        LET s2 == imap_clients_kick(State, user, guid, w).s
        IN  \A c \in Clients :
                (Registered(State, c) /\ KickMatches(c, user, guid)) =>
                    /\ s2.clients[c].alive = "freed"
                    /\ s2.obs[c].reason = MASTER_SERVICE_USER_KICKED_MSG
                    /\ s2.obs[c].destroys = obs[c].destroys + 1
                    /\ s2.obs[c].fd_closed
                    /\ ~Registered(s2, c) /\ ~Queued(s2, c)

C12_Witness ==
    \E c \in Clients :
        /\ Freed(c) /\ obs[c].reason = MASTER_SERVICE_USER_KICKED_MSG
        /\ obs[c].fd_sent = 1 /\ obs[c].fd_shutdown

\* C13: in every state, imap_clients_kick(user, conn_guid) leaves every
\* session that does not match unchanged: all its fields (flags, timers,
\* watchers, buffers), what its client has been sent, and its membership of
\* the list and of the retry queue; the shared retry timer is left as it is.
C13_KickLeavesOthers ==
    \A user \in Users, guid \in Guids, w \in SockResults :
        LET s2 == imap_clients_kick(State, user, guid, w).s
        IN  /\ s2.to_unhibernate = to_unhibernate
            /\ \A c \in Clients :
                  ~(Registered(State, c) /\ KickMatches(c, user, guid)) =>
                      /\ s2.clients[c] = clients[c]
                      /\ s2.obs[c] = obs[c]
                      /\ Registered(s2, c) <=> Registered(State, c)
                      /\ Queued(s2, c) <=> Queued(State, c)

C13_Witness ==
    \E c, d \in Clients :
        /\ Freed(c) /\ obs[c].reason = MASTER_SERVICE_USER_KICKED_MSG
        /\ Live(d) /\ clients[d].unhibernate_queued /\ InQueue(d)
        /\ clients[d].username = "alice" /\ obs[d].byes = 0

\* What the master socket may answer to the attempts of one retry tick
TickConns == [1..NClients -> ConnResults]

\* C14, as claimed: one firing of the retry tick makes at most one call of
\* imap_client_try_move_back, whatever the master socket answers.
C14_OneAttemptPerTick ==
    (to_unhibernate /\ ~deinit_done) =>
        \A conns \in TickConns :
            imap_clients_unhibernate(State, conns).attempts <= 1

\* C14, amended: one firing of the retry tick tries the head of the queue again
\* and again until an attempt is deferred or the queue is empty.  So it makes at
\* most one deferred attempt and at most one attempt per queued session; every
\* attempt but a deferred last one takes its session out of the queue; and the
\* shared timer is removed exactly if the tick leaves the queue empty.
C14_AttemptsUntilDeferred ==
    (to_unhibernate /\ ~deinit_done) =>
        \A conns \in TickConns :
            LET s2 == imap_clients_unhibernate(State, conns)
                left == Len(unhibernate_queue) - Len(s2.unhibernate_queue)
            IN  /\ s2.attempts <= Len(unhibernate_queue)
                /\ s2.attempts =
                       left + (IF s2.unhibernate_queue # <<>> THEN 1 ELSE 0)
                /\ s2.to_unhibernate <=> s2.unhibernate_queue # <<>>

C14_Witness ==
    /\ to_unhibernate /\ ~deinit_done
    /\ Len(unhibernate_queue) = 2
    /\ \E conns \in TickConns :
          imap_clients_unhibernate(State, conns).attempts = 2

\* The session as a deferred attempt must leave it: alive, its fd open, in the
\* retry queue with move_back_start set and the timer armed, and its client
\* has been sent nothing more.
DeferredUnharmed(s2, c) ==
    /\ s2.clients[c].alive = "live"
    /\ ~s2.obs[c].fd_closed /\ ~s2.obs[c].fd_shutdown
    /\ s2.obs[c].destroys = 0
    /\ s2.clients[c].unhibernate_queued /\ Queued(s2, c)
    /\ s2.clients[c].move_back_start # 0
    /\ s2.to_unhibernate
    /\ s2.obs[c].wire = obs[c].wire /\ s2.obs[c].written = obs[c].written
    /\ s2.clients[c].output = <<>>

AllBusy == [i \in 1..NClients |-> 0]

\* C15: in every state, an unhibernation attempt that finds the master socket
\* busy (imap_master_connection_init returns 0; the output buffer is empty, as
\* the attempt gets that far) leaves the session unharmed unless its deadline
\* has passed, i.e. move_back_start is set and ioloop_time - move_back_start >
\* T(input_pending): for an attempt started by a notify (T of the session's
\* input_pending), by client input on an IDLE or a non-IDLE session (T(true) =
\* 10 s) and by the retry tick on the head of the queue.  A first attempt
\* (move_back_start = 0) is thus never failed, nor a notify-only session
\* within 300 s.
C15_BusyIsDeferred ==
    \A c \in Clients :
        (Live(c) /\ ~deinit_done /\ clients[c].output = <<>>) =>
            /\ ((\E i \in 1..Len(clients[c].notifys) : clients[c].notifys[i].io)
                  /\ ~DeadlineElapsed(clients[c], ioloop_time))
                  => DeferredUnharmed(imap_client_input_notify(State, c, 0), c)
            /\ (clients[c].io = "idle_cmd"
                  /\ ~DeadlineElapsed([clients[c] EXCEPT !.input_pending = TRUE],
                                      ioloop_time))
                  => DeferredUnharmed(input_done(State, c, 0), c)
            /\ (clients[c].io = "nonidle"
                  /\ ~DeadlineElapsed([clients[c] EXCEPT !.input_pending = TRUE],
                                      ioloop_time))
                  => DeferredUnharmed(
                         imap_client_input_nonidle(State, c, <<"x">>, FALSE, 0),
                         c)
            /\ (to_unhibernate /\ unhibernate_queue # <<>>
                  /\ unhibernate_queue[1] = c
                  /\ ~DeadlineElapsed(clients[c], ioloop_time))
                  => DeferredUnharmed(imap_clients_unhibernate(State, AllBusy), c)

\* A notify-only session still queued more than 10 s after its first attempt,
\* and a session whose first attempt was deferred when the clock was past 10.
C15_Witness ==
    \E c, d \in Clients :
        /\ Live(c) /\ clients[c].unhibernate_queued /\ ~clients[c].input_pending
        /\ ioloop_time - clients[c].move_back_start
               > IMAP_CLIENT_MOVE_BACK_WITH_INPUT_TIMEOUT_SECS
        /\ to_unhibernate /\ unhibernate_queue[1] = c
        /\ Live(d) /\ clients[d].unhibernate_queued
        /\ clients[d].move_back_start
               > IMAP_CLIENT_MOVE_BACK_WITH_INPUT_TIMEOUT_SECS

FailedNow(s2, c, shut) ==
    /\ s2.clients[c].alive = "freed"
    /\ s2.obs[c].reason = IMAP_CLIENT_UNHIBERNATE_ERROR
    /\ s2.obs[c].destroys = 1
    /\ ~Queued(s2, c) /\ ~Registered(s2, c)
    /\ s2.obs[c].fd_shutdown <=> shut
    /\ s2.obs[c].fd_closed

\* C16: in every state, a permanent failure of the way back destroys the
\* session in the same step with "Failed to unhibernate client" and leaves it
\* out of the retry queue: a connect error (imap_master_connection_init
\* returns -1) met by an attempt from a notify, from client input or from the
\* retry tick; a failed fd_send; a reply line not starting with '+'.  The fd is
\* shut down (SHUT_RDWR) exactly if it had been sent to the master before,
\* which is possible only in the last case.
C16_PermanentFailureIsTerminal ==
    \A c \in Clients :
        (Live(c) /\ ~deinit_done) =>
            /\ ((\E i \in 1..Len(clients[c].notifys) : clients[c].notifys[i].io)
                  /\ clients[c].output = <<>>)
                  => FailedNow(imap_client_input_notify(State, c, -1), c, FALSE)
            /\ (clients[c].io = "idle_cmd" /\ clients[c].output = <<>>)
                  => FailedNow(input_done(State, c, -1), c, FALSE)
            /\ (clients[c].io = "nonidle" /\ clients[c].output = <<>>)
                  => FailedNow(
                         imap_client_input_nonidle(State, c, <<"x">>, FALSE, -1),
                         c, FALSE)
            /\ (to_unhibernate /\ unhibernate_queue # <<>>
                  /\ unhibernate_queue[1] = c /\ clients[c].output = <<>>)
                  => \A conns \in TickConns :
                         conns[1] = -1 =>
                             FailedNow(imap_clients_unhibernate(State, conns),
                                       c, FALSE)
            /\ clients[c].master_conn = "connected"
                  => FailedNow(imap_client_move_back_send_callback(State, c, -1),
                               c, FALSE)
            /\ clients[c].master_conn # "null"
                  => FailedNow(imap_client_move_back_read_callback(State, c, FALSE),
                               c, obs[c].fd_sent = 1)

C16_Witness ==
    \E c \in Clients :
        /\ Freed(c) /\ obs[c].reason = IMAP_CLIENT_UNHIBERNATE_ERROR
        /\ obs[c].fd_sent = 1 /\ obs[c].fd_shutdown /\ ~obs[c].plus_reply

\* C17: a destroyed session, whatever destroyed it, was destroyed once and is
\* referred to by nothing: it is in neither the session list nor the retry
\* queue, and when its memory was released its client I/O watcher, its
\* keepalive timer and all its notify watchers had been removed, its notify
\* fds closed and its master connection freed.
C17_NothingRefersToDestroyed ==
    \A c \in Clients :
        Freed(c) =>
            /\ obs[c].destroys = 1
            /\ ~Registered(State, c) /\ ~Queued(State, c)
            /\ obs[c].at_free = NoRefs

C17_Witness ==
    \E c \in Clients :
        /\ Freed(c) /\ obs[c].reason = MASTER_SERVICE_SHUTTING_DOWN_MSG
        /\ obs[c].conn_inits = 1 /\ obs[c].arms > 0

\* Hibernating with either kind of input watcher
HibernatingAny(cl) ==
    /\ cl.alive = "live" /\ cl.io # "null"
    /\ ~cl.unhibernate_queued /\ cl.master_conn = "null"

\* C18, as claimed: if the client's socket is at EOF while the session is
\* hibernating, whatever the session has buffered of the client's input, the
\* session is eventually destroyed.
C18_EofEventuallyDestroys ==
    \A c \in Clients :
        (HibernatingAny(clients[c]) /\ peer[c].closed) ~> Freed(c)

\* EOF with nothing of the client's input left unparsed does destroy the
\* session (the size == 0 test of the input handler).
EofWithEmptyBufferDestroys ==
    \A c \in Clients :
        (HibernatingAny(clients[c]) /\ peer[c].closed
             /\ peer[c].bytes = <<>> /\ clients[c].input = <<>>) ~> Freed(c)


\* C19: imap_clients_deinit terminates and kicks every session.  Whatever
\* sessions exist, after it the session list and the retry queue are empty and
\* the retry timer is removed; every session that was alive had the "* BYE"
\* line written to its output stream once (the socket took it with whatever
\* was buffered before it, or it was dropped) and was destroyed once, with
\* nothing left referring to it; the other sessions are untouched.
C19_DeinitKicksAll ==
    [][(~deinit_done /\ deinit_done') =>
          /\ imap_clients' = <<>>
          /\ unhibernate_queue' = <<>>
          /\ ~to_unhibernate'
          /\ \A c \in Clients :
                IF Live(c)
                THEN /\ clients'[c] = NoClient("freed")
                     /\ obs'[c].reason = MASTER_SERVICE_SHUTTING_DOWN_MSG
                     /\ obs'[c].byes = 1
                     /\ obs'[c].destroys = 1
                     /\ obs'[c].fd_closed
                     /\ obs'[c].at_free = NoRefs
                     /\ obs'[c].wire \in
                           {obs[c].wire,
                            (obs[c].wire \o clients[c].output)
                                \o <<Bye(MASTER_SERVICE_SHUTTING_DOWN_MSG)>>}
                ELSE clients'[c] = clients[c] /\ obs'[c] = obs[c]]_vars

\* Deinit has destroyed two sessions, one of them in the middle of its
\* unhibernation (its master connection was made) and one not, and a client
\* got the BYE.
C19_Witness ==
    /\ deinit_done
    /\ \A c \in Clients :
          /\ Freed(c)
          /\ obs[c].reason = MASTER_SERVICE_SHUTTING_DOWN_MSG
          /\ obs[c].byes = 1 /\ obs[c].destroys = 1
    /\ \E c \in Clients : obs[c].conn_inits = 1
    /\ \E c \in Clients : obs[c].conn_inits = 0
    /\ \E c \in Clients :
          obs[c].wire # <<>>
          /\ obs[c].wire[Len(obs[c].wire)] = Bye(MASTER_SERVICE_SHUTTING_DOWN_MSG)


\* A tag that is a token: not empty, and without SP, TAB, CR or LF
TagToken(tag) ==
    /\ tag # <<>> /\ tag # NoTag
    /\ \A i \in 1..Len(tag) : tag[i] \notin {SP, TAB, CR, LF}

WellFormed(frag) ==
    \/ frag = StillHere
    \/ frag = Bye(MASTER_SERVICE_SHUTTING_DOWN_MSG)
    \/ frag.kind = "idle_completed" /\ TagToken(frag.tag)

\* What was written for session c: what reached the socket, then what the
\* output stream still holds.
Written(c) == obs[c].wire \o clients[c].output

\* C20, as claimed: every fragment the core writes to a client socket is
\* "* OK Still here", "<tag> OK Idle completed." with "+ idling", or
\* "* BYE <message>.", and the tag written is a non-empty token without SP,
\* TAB, CR or LF, whatever input the parser has accepted as DONE+IDLE.
C20_WrittenFragmentsWellFormed ==
    \A c \in Clients :
        \A i \in 1..Len(Written(c)) : WellFormed(Written(c)[i])


\* C21, as claimed: the BYE line a kicked session is sent names the cause of
\* the kick, "Kicked" for imap_clients_kick and "Shutting down" for
\* imap_clients_deinit (the cause is the reason the session was destroyed
\* with).
C21_ByeNamesCause ==
    \A c \in Clients :
        \A i \in 1..Len(obs[c].wire) :
            obs[c].wire[i].kind = "bye" => obs[c].wire[i] = Bye(obs[c].reason)


\* The sessions in the retry queue of s
QueuedSet(s) == {s.unhibernate_queue[i] : i \in 1..Len(s.unhibernate_queue)}

\* An attempt has ended terminally for c: destroyed, or handed to a master
\* connection and stopped.
EndedTerminally(s2, c) ==
    \/ s2.clients[c].alive = "freed"
    \/ s2.clients[c].master_conn # "null" /\ ~s2.clients[c].unhibernate_queued

\* C22: a retry tick tries the head of the queue again and again.  Every
\* session it takes out of the queue has ended terminally and no session
\* enters the queue; it stops at the first attempt that defers, so it makes one
\* attempt per session taken out plus the deferred one if sessions are left;
\* the timer is removed exactly when the queue has become empty; and it makes
\* no more attempts than there were queued sessions.
C22_TickTerminates ==
    (to_unhibernate /\ ~deinit_done) =>
        \A conns \in TickConns :
            LET s2 == imap_clients_unhibernate(State, conns)
                out == QueuedSet(State) \ QueuedSet(s2)
            IN  /\ QueuedSet(s2) \subseteq QueuedSet(State)
                /\ \A c \in out : EndedTerminally(s2, c)
                /\ \A c \in QueuedSet(s2) :
                      s2.clients[c].alive = "live"
                      /\ s2.clients[c].unhibernate_queued
                /\ s2.attempts =
                      Cardinality(out) + (IF QueuedSet(s2) = {} THEN 0 ELSE 1)
                /\ s2.attempts <= Cardinality(QueuedSet(State))
                /\ s2.to_unhibernate <=> QueuedSet(s2) # {}

\* Two sessions are queued and a tick can connect the first to the master and
\* then defer the second, which stays queued with the timer armed.
C22_Witness ==
    /\ to_unhibernate /\ ~deinit_done
    /\ Len(unhibernate_queue) = 2
    /\ \E conns \in TickConns :
          LET s2 == imap_clients_unhibernate(State, conns)
          IN  /\ s2.attempts = 2
              /\ Len(s2.unhibernate_queue) = 1
              /\ s2.to_unhibernate
              /\ \E c \in Clients : s2.clients[c].master_conn # "null"


\* Moving back: queued for a retry, or with a master connection in flight
MovingBack(cl) == cl.unhibernate_queued \/ cl.master_conn # "null"

\* C23, as claimed: a keepalive timer is armed only for a session with
\* imap_idle_notify_interval > 0 that is hibernating, never for one that is
\* queued for a retry or has a master connection in flight; and a session with
\* interval 0 is never sent "* OK Still here".
C23_KeepaliveOnlyWhileHibernating ==
    \A c \in Clients :
        /\ clients[c].to_keepalive =>
              /\ clients[c].alive = "live"
              /\ clients[c].imap_idle_notify_interval > 0
              /\ ~MovingBack(clients[c])
        /\ (clients[c].alive = "live"
                /\ clients[c].imap_idle_notify_interval = 0) =>
              \A i \in 1..Len(Written(c)) : Written(c)[i] # StillHere


\* What was written for session c in the program state s
WrittenIn(s, c) == s.obs[c].wire \o s.clients[c].output

\* The firing has destroyed c as disconnected and has written nothing
KeepaliveDisconnected(s2, c) ==
    /\ s2.clients[c].alive = "freed"
    /\ s2.obs[c].reason = DISCONNECTED_REASON
    /\ s2.obs[c].written = obs[c].written

\* The firing has written "* OK Still here\r\n" in full after everything
\* written before, and has armed the timer again
KeepaliveSent(s2, c) ==
    /\ s2.clients[c].alive = "live"
    /\ WrittenIn(s2, c) = Append(Written(c), StillHere)
    /\ s2.obs[c].written = obs[c].written + 1
    /\ ~s2.obs[c].assert_failed
    /\ s2.clients[c].to_keepalive
    /\ s2.obs[c].arms = obs[c].arms + 1

\* C24, as claimed: when the keepalive timer fires and the buffered output
\* cannot be flushed completely, nothing changes; when the flush fails the
\* session is destroyed as disconnected; otherwise "* OK Still here\r\n" is
\* accepted in full and the timer is armed again.
C24_KeepaliveFlushThenSend ==
    \A c \in Clients : (Live(c) /\ clients[c].to_keepalive /\ ~deinit_done) =>
        \A w1 \in SockResults, w2 \in SockResults :
            LET s2 == keepalive_timeout(State, c, w1, w2)
                ret == o_stream_flush(State, c, w1).ret
            IN  /\ ret = 0 => s2 = State
                /\ ret < 0 => KeepaliveDisconnected(s2, c)
                /\ ret > 0 => KeepaliveSent(s2, c)

\* C24, amended: as above, but after a complete flush the write of the line
\* itself can fail, and then the session is destroyed as disconnected with
\* nothing written; a line that is written is always accepted in full, so the
\* assertion never fails.
C24_KeepaliveFlushSendOrDisconnect ==
    \A c \in Clients : (Live(c) /\ clients[c].to_keepalive /\ ~deinit_done) =>
        \A w1 \in SockResults, w2 \in SockResults :
            LET s2 == keepalive_timeout(State, c, w1, w2)
                ret == o_stream_flush(State, c, w1).ret
            IN  /\ ret = 0 => s2 = State
                /\ ret < 0 => KeepaliveDisconnected(s2, c)
                /\ ret > 0 =>
                      IF w2 = "err" THEN KeepaliveDisconnected(s2, c)
                      ELSE KeepaliveSent(s2, c)
                /\ ~obs[c].assert_failed

\* A keepalive has been sent and the timer armed again, and output is now
\* buffered for the next firing to flush.
C24_Witness ==
    \E c \in Clients :
        /\ Live(c) /\ clients[c].to_keepalive
        /\ obs[c].arms > 1
        /\ \E i \in 1..Len(Written(c)) : Written(c)[i] = StillHere
        /\ clients[c].output # <<>>


\* What the input handler must leave in the input stream after a parse of
\* `data' with result `state'
Unconsumed(state, data) ==
    CASE state = IMAP_CLIENT_INPUT_STATE_DONE_LF -> SubSeq(data, 6, Len(data))
      [] state = IMAP_CLIENT_INPUT_STATE_DONE_CRLF -> SubSeq(data, 7, Len(data))
      [] state = IMAP_CLIENT_INPUT_STATE_DONEIDLE -> <<>>
      [] OTHER -> data

\* C25: the input handler parses everything received and not yet consumed
\* (what was buffered, then what it has just read: no byte of the client's
\* script is missing or doubled), and consumes 5 bytes on DONE_LF, 6 on
\* DONE_CRLF, everything on DONEIDLE and nothing on Bad or Need-more; and the
\* client_input of the handoff record is what is then left: the received bytes
\* without the DONE line, or all of them.
C25_ConsumesExactly ==
    \A c \in Clients :
        /\ (Live(c) /\ obs[c].idle_cmd /\ obs[c].parse_state # "(none)") =>
              clients[c].input = Unconsumed(obs[c].parse_state, obs[c].parsed)
        /\ (Live(c) /\ clients[c].io = "idle_cmd" /\ obs[c].wakeups > 0) =>
              obs[c].parsed \o peer[c].bytes = obs[c].script
        /\ (obs[c].record.sent /\ obs[c].idle_cmd) =>
              obs[c].record.client_input =
                  IF obs[c].parse_state = "(none)" THEN <<>>
                  ELSE Unconsumed(obs[c].parse_state, obs[c].parsed)

\* A DONE line that came in two or more pieces, followed by more of the
\* client's bytes, has been handed over: the record holds the bytes after it.
C25_Witness ==
    \E c \in Clients :
        /\ obs[c].record.sent
        /\ obs[c].parse_state = IMAP_CLIENT_INPUT_STATE_DONE_CRLF
        /\ obs[c].wakeups > 1
        /\ obs[c].record.client_input # <<>>
        /\ <<"D", "O", "N", "E", CR, LF>> \o obs[c].record.client_input
               = obs[c].script


\* The data begins like DONE, as far as it goes (any case)
BeginsLikeDone(data) == i_memcasecmp_eq(data, 1, S_DONE, I_MIN(Len(data), 4))

\* A proper prefix of "DONE\r\n" or of "DONE\n" (any case)
ProperPrefixOfDone(data) ==
    \E line \in {DoneCrlf, DoneLf} :
        /\ Len(data) < Len(line)
        /\ \A i \in 1..Len(data) : Upper(data[i]) = line[i]

\* Where the LF of the DONE line must be
DoneNl(data) == IF data[5] = CR THEN 6 ELSE 5

\* The data holds DONE[\r]\n and at least one more byte
HasDoneLine(data) ==
    /\ BeginsLikeDone(data) /\ Len(data) >= 5
    /\ Len(data) > DoneNl(data) /\ data[DoneNl(data)] = LF

\* The token after the DONE line ends inside the data: the position of the
\* SP, CR or TAB that ends it
TokenEnd(data) == tag_scan(data, DoneNl(data) + 1)

\* SP and IDLE follow the token
SpIdleFollows(data) ==
    /\ data[TokenEnd(data)] = SP
    /\ Len(data) - TokenEnd(data) > 4
    /\ i_memcasecmp_eq(data, TokenEnd(data) + 1, S_IDLE, 4)

\* Bad for what is not DONE, for DONE and then neither CR nor LF, and for CR
\* and then no LF; never Bad for a proper prefix of the DONE line.
BadBeforeToken(st, data) ==
    /\ ~BeginsLikeDone(data) => st = IMAP_CLIENT_INPUT_STATE_BAD
    /\ (BeginsLikeDone(data) /\ Len(data) >= 5 /\ data[5] \notin {CR, LF})
          => st = IMAP_CLIENT_INPUT_STATE_BAD
    /\ (BeginsLikeDone(data) /\ Len(data) >= 6 /\ data[5] = CR /\ data[6] # LF)
          => st = IMAP_CLIENT_INPUT_STATE_BAD
    /\ ProperPrefixOfDone(data) => st # IMAP_CLIENT_INPUT_STATE_BAD

\* C26, as claimed: imap_client_input_parse classifies as Bad what is not
\* DONE, DONE followed by neither CR nor LF, CR followed by something other
\* than LF, and every input (a whole line after the DONE line) whose token
\* after the DONE line is not followed by SP and IDLE; and never a proper
\* prefix of the DONE line.
C26_BadClassification ==
    \A c \in Clients : obs[c].parse_state # "(none)" =>
        LET st == obs[c].parse_state
            data == obs[c].parsed
        IN  /\ BadBeforeToken(st, data)
            /\ (HasDoneLine(data) /\ TokenEnd(data) <= Len(data)
                    /\ data[Len(data)] = LF /\ ~SpIdleFollows(data))
                  => st = IMAP_CLIENT_INPUT_STATE_BAD

\* C26, amended: as above for what comes before the token; an input whose
\* token after the DONE line is ended by a CR or a TAB is Bad, but one whose
\* token is followed by SP is never Bad, whatever follows the SP: it is a
\* clean DONE (and DONE+IDLE only if IDLE[\r]\n follows and ends the data).
C26_BadOnlyWithoutSpace ==
    \A c \in Clients : obs[c].parse_state # "(none)" =>
        LET st == obs[c].parse_state
            data == obs[c].parsed
        IN  /\ BadBeforeToken(st, data)
            /\ (HasDoneLine(data) /\ TokenEnd(data) <= Len(data)) =>
                  IF data[TokenEnd(data)] # SP
                  THEN st = IMAP_CLIENT_INPUT_STATE_BAD
                  ELSE /\ st \in {IMAP_CLIENT_INPUT_STATE_DONE_LF,
                                  IMAP_CLIENT_INPUT_STATE_DONE_CRLF,
                                  IMAP_CLIENT_INPUT_STATE_DONEIDLE}
                       /\ st = IMAP_CLIENT_INPUT_STATE_DONEIDLE
                              => SpIdleFollows(data)
                       /\ ~SpIdleFollows(data)
                              => st = (IF data[5] = CR
                                       THEN IMAP_CLIENT_INPUT_STATE_DONE_CRLF
                                       ELSE IMAP_CLIENT_INPUT_STATE_DONE_LF)

\* The parser has classified "DONE\r\na NOOP\r\n", a token followed by SP and
\* a command that is not IDLE, and has not said Bad.
C26_Witness ==
    \E c \in Clients :
        /\ obs[c].parsed = DoneCrlf \o <<"a", SP, "N", "O", "O", "P", CR, LF>>
        /\ obs[c].parse_state = IMAP_CLIENT_INPUT_STATE_DONE_CRLF


\* C27, as claimed: after the parser has said Need-more with n bytes buffered,
\* next_read_threshold is n, and no wakeup parses the input again before n + 1
\* bytes are buffered; after any other classification next_read_threshold
\* is 0.
C27_NoReparseBelowThreshold ==
    \A c \in Clients : (Live(c) /\ clients[c].io = "idle_cmd" /\ ~deinit_done) =>
        /\ obs[c].parse_state = IMAP_CLIENT_INPUT_STATE_UNKNOWN
              => clients[c].next_read_threshold = Len(clients[c].input)
        /\ obs[c].parse_state # IMAP_CLIENT_INPUT_STATE_UNKNOWN
              => clients[c].next_read_threshold = 0
        /\ \A n \in AnyChunk(c) :
              (Readable(c, n) /\ clients[c].next_read_threshold > 0
                  /\ Len(clients[c].input) + n <= clients[c].next_read_threshold)
              => LET chunk == SubSeq(peer[c].bytes, 1, n)
                 IN  \A pr \in imap_client_input_parse(clients[c].input \o chunk) :
                        imap_client_input_idle_cmd(
                            State, c, chunk, AtEof(c, n), pr, "ok", "ok", 0
                        ).parses = 0


\* C28: a session makes at most one master connection and sends its client fd
\* at most once; while it has a master connection it has no client io
\* watcher, no notify watcher, no keepalive timer and no entry in the retry
\* queue, so that neither an input, a notify, a timer nor the retry tick can
\* start another attempt for it.
C28_OneMasterConnection ==
    \A c \in Clients :
        /\ obs[c].conn_inits <= 1
        /\ obs[c].fd_sent <= obs[c].conn_inits
        /\ (Live(c) /\ clients[c].master_conn # "null") =>
              /\ obs[c].conn_inits = 1
              /\ Refs(State, c) =
                    [NoRefs EXCEPT !.master_conn = clients[c].master_conn,
                                   !.listed = TRUE]
              /\ ~clients[c].unhibernate_queued

\* A session that had a keepalive timer and a notify fd, and was deferred once
\* (two attempts), has sent its fd over its one master connection.
C28_Witness ==
    \E c \in Clients :
        /\ Live(c) /\ clients[c].master_conn = "fd_sent"
        /\ obs[c].conn_inits = 1 /\ obs[c].fd_sent = 1
        /\ obs[c].arms > 0
        /\ clients[c].notifys # <<>>
        /\ clients[c].move_back_start # 0


\* C29, as claimed: a session that waits in the retry queue without pending
\* input keeps its client io watcher, and one that waits with pending input
\* has none; when a DONE of the client arrives for a queued session, the
\* session is failed at once or input_pending is true and its deadline is
\* move_back_start + 10 s from then on; and a session with that shorter
\* deadline is failed as soon as the deadline has elapsed: no retry tick
\* leaves it in the queue after that.
C29_InputShortensDeadline ==
    /\ \A c \in Clients : (Live(c) /\ clients[c].unhibernate_queued) =>
          (clients[c].input_pending <=> clients[c].io = "null")
    /\ \A c \in Clients :
          (Live(c) /\ clients[c].unhibernate_queued
               /\ clients[c].io = "idle_cmd" /\ clients[c].input = <<>>
               /\ ~deinit_done) =>
              LET s2 == imap_client_input_idle_cmd(
                            State, c, DoneCrlf, FALSE,
                            ParseResult(IMAP_CLIENT_INPUT_STATE_DONE_CRLF,
                                        NoTag, FALSE),
                            "ok", "ok", 0)
              IN  \/ FailedNow(s2, c, FALSE)
                  \/ /\ s2.clients[c].input_pending
                     /\ s2.clients[c].unhibernate_queued
                     /\ unhibernate_deadline(s2.clients[c]) =
                            clients[c].move_back_start
                                + IMAP_CLIENT_MOVE_BACK_WITH_INPUT_TIMEOUT_SECS
    /\ (to_unhibernate /\ ~deinit_done) =>
          \A conns \in TickConns :
              LET s2 == imap_clients_unhibernate(State, conns)
              IN  \A c \in Clients :
                      (s2.clients[c].alive = "live"
                           /\ s2.clients[c].unhibernate_queued
                           /\ s2.clients[c].input_pending)
                      => s2.ioloop_time - s2.clients[c].move_back_start
                            <= IMAP_CLIENT_MOVE_BACK_WITH_INPUT_TIMEOUT_SECS


\* C30: every session is created with its tag set if it is an IDLE session;
\* then in every later state a live IDLE session has its tag set, a refresh
\* by DONE+IDLE has put a tag that is set in its place, and the handoff
\* record of an IDLE session carries a tag.
C30_TagStaysSet ==
    \A c \in Clients :
        /\ (Live(c) /\ clients[c].idle_cmd) => clients[c].tag # NoTag
        /\ (Live(c) /\ obs[c].parse_state = IMAP_CLIENT_INPUT_STATE_DONEIDLE) =>
              \E d \in {DoneCrlf, DoneLf}, nl \in {<<CR, LF>>, <<LF>>} :
                  obs[c].parsed = DoneIdle(d, clients[c].tag, nl)
        /\ (obs[c].record.sent /\ obs[c].idle_cmd) => obs[c].record.tag # NoTag

\* An IDLE session created with tag "a" has been refreshed under tag "b" and
\* then handed to the master with that tag.
C30_Witness ==
    \E c \in Clients :
        /\ Live(c) /\ clients[c].idle_cmd
        /\ clients[c].tag = <<"b">>
        /\ obs[c].record.sent /\ obs[c].record.tag = <<"b">>
        /\ \E i \in 1..Len(obs[c].wire) :
              obs[c].wire[i] = IdleCompleted(<<"a">>)


\* C31: imap_client_input_parse reads its data only at positions inside the
\* size it was given: no wakeup of any session has parsed with a read at or
\* behind the end of the buffered input, so the size counter stayed >= 0.
C31_ParserStaysInsideData ==
    \A c \in Clients : ~obs[c].oob


\* C32: once the client fd has been sent to the master (the session lives
\* with shutdown_fd_on_destroy set), no step of the program puts further
\* bytes on the client socket: the bytes on the wire stay as they were.
C32_NoWriteAfterFdSent ==
    [][\A c \in Clients :
          (Live(c) /\ clients[c].shutdown_fd_on_destroy) =>
              obs'[c].wire = obs[c].wire]_vars


\* C33: called between callbacks on any session list, for any user and
\* conn_guid, imap_clients_kick returns the number of sessions that the call
\* destroys.
C33_KickReturnsCount ==
    ~deinit_done =>
        \A user \in Users, guid \in Guids, w \in SockResults :
            LET r == imap_clients_kick(State, user, guid, w)
            IN  r.count = Cardinality({c \in Clients :
                              /\ clients[c].alive = "live"
                              /\ r.s.clients[c].alive = "freed"})


\* C34: in every state the retry timer is armed if the retry queue is not
\* empty; and a step that removes the timer is either imap_clients_deinit or
\* a retry tick that ends with the queue empty.
C34_TimerArmedWhileQueued ==
    /\ [](unhibernate_queue # <<>> => to_unhibernate)
    /\ [][(to_unhibernate /\ ~to_unhibernate') =>
             \/ ~deinit_done /\ deinit_done'
             \/ /\ unhibernate_queue' = <<>>
                /\ \E conns \in [1..NClients -> ConnResults] :
                      LET s2 == imap_clients_unhibernate(State, conns)
                      IN  /\ ~s2.to_unhibernate
                          /\ clients' = s2.clients
                          /\ obs' = s2.obs]_vars

\* A tick has connected one queued session and deferred the next one again:
\* the queue is not empty and the timer is still armed.
C34_Witness ==
    \E c, d \in Clients :
        /\ c # d
        /\ Live(c) /\ clients[c].move_back_start # 0
        /\ clients[c].master_conn # "null"
        /\ InQueue(d)
        /\ to_unhibernate


\* C35: over every step that a session survives, its move_back_start changes
\* only from 0, and then to the current time with the session queued; its
\* input_pending, idle_done and bad_done never go from true to false; so once
\* the deadline (move_back_start + timeout) exists it never becomes later.
C35_DeadlineNeverLater ==
    [][\A c \in Clients :
          (Live(c) /\ clients'[c].alive = "live") =>
              /\ clients[c].move_back_start # 0 =>
                    /\ clients'[c].move_back_start = clients[c].move_back_start
                    /\ unhibernate_deadline(clients'[c])
                           <= unhibernate_deadline(clients[c])
              /\ clients'[c].move_back_start # clients[c].move_back_start =>
                    /\ clients'[c].move_back_start = ioloop_time
                    /\ clients'[c].unhibernate_queued
              /\ clients[c].input_pending => clients'[c].input_pending
              /\ clients[c].idle_done => clients'[c].idle_done
              /\ clients[c].bad_done => clients'[c].bad_done]_vars

\* A session was deferred on a notify and has waited since; client input
\* arrives now and is deferred again: move_back_start stays, input_pending
\* becomes true and the deadline becomes earlier.
C35_Witness ==
    \E c \in Clients :
        /\ ~deinit_done
        /\ Live(c) /\ clients[c].io = "nonidle"
        /\ clients[c].unhibernate_queued /\ ~clients[c].input_pending
        /\ clients[c].move_back_start # 0
        /\ ioloop_time > clients[c].move_back_start
        /\ peer[c].bytes # <<>>
        /\ LET s2 == imap_client_input_nonidle(State, c, peer[c].bytes, FALSE, 0)
           IN  /\ s2.clients[c].move_back_start = clients[c].move_back_start
               /\ s2.clients[c].input_pending
               /\ unhibernate_deadline(s2.clients[c])
                      < unhibernate_deadline(clients[c])


\* C38: in every state a live session with bad_done also has idle_done, so
\* the flags of its handoff record are exactly "bad-done"; a session whose
\* input was classified Bad keeps bad_done while it lives, and the record
\* sent for it carries "bad-done" and not "idle-continue".
C38_BadDoneImpliesIdleDone ==
    \A c \in Clients :
        /\ (Live(c) /\ clients[c].bad_done) =>
              /\ clients[c].idle_done
              /\ HandoffFlags(clients[c]) = {"bad-done"}
        /\ (Live(c) /\ obs[c].parse_state = IMAP_CLIENT_INPUT_STATE_BAD) =>
              clients[c].bad_done
        /\ (obs[c].record.sent
              /\ obs[c].parse_state = IMAP_CLIENT_INPUT_STATE_BAD) =>
              /\ "bad-done" \in obs[c].record.flags
              /\ "idle-continue" \notin obs[c].record.flags

\* A session whose input was classified Bad was deferred, waited for a retry
\* and was then handed to the master with "bad-done".
C38_Witness ==
    \E c \in Clients :
        /\ Live(c) /\ clients[c].bad_done /\ clients[c].idle_done
        /\ clients[c].move_back_start # 0
        /\ clients[c].master_conn = "fd_sent"
        /\ obs[c].record.flags = {"bad-done"}


\* C37: for a session created with idle_cmd false: whenever client bytes are
\* readable, imap_client_input_nonidle either destroys the session (failed
\* attempt) or leaves it moving back with input_pending set and the bytes
\* appended unchanged to its input, without a call of the parser; in every
\* state its input was never parsed, a live session with input_pending is
\* moving back, no idle-completed response was written for it, and the
\* handoff record sent for it has no flag and holds its whole input.
NonIdleSession(c) == clients[c].alive # "none" /\ ~obs[c].idle_cmd

C37_NonIdleInputForwarded ==
    \A c \in Clients :
        NonIdleSession(c) =>
            /\ obs[c].parse_state = "(none)" /\ obs[c].parsed = <<>>
            /\ \A i \in 1..Len(Written(c)) :
                  Written(c)[i].kind # "idle_completed"
            /\ (Live(c) /\ clients[c].input_pending) =>
                  MovingBack(clients[c])
            /\ obs[c].record.sent =>
                  /\ obs[c].record.flags = {}
                  /\ Live(c) => obs[c].record.client_input = clients[c].input
            /\ (~deinit_done /\ Live(c) /\ clients[c].io = "nonidle") =>
                  \A n \in 1..Len(peer[c].bytes), conn_ret \in ConnResults :
                      LET chunk == SubSeq(peer[c].bytes, 1, n)
                          s2 == imap_client_input_nonidle(State, c, chunk,
                                                          FALSE, conn_ret)
                      IN  /\ s2.parses = 0
                          /\ s2.obs[c].wire = obs[c].wire
                          /\ IF s2.clients[c].alive = "live"
                             THEN /\ s2.clients[c].input_pending
                                  /\ s2.clients[c].input =
                                         clients[c].input \o chunk
                                  /\ MovingBack(s2.clients[c])
                             ELSE s2.obs[c].reason \in
                                      {IMAP_CLIENT_UNHIBERNATE_ERROR,
                                       IMAP_CLIENT_BUFFER_FULL_ERROR}

\* A session without IDLE has received FOO\r\n and its fd was sent to the
\* master with the five bytes as client_input and with no flag.
C37_Witness ==
    \E c \in Clients :
        /\ Live(c) /\ ~clients[c].idle_cmd
        /\ clients[c].input_pending
        /\ clients[c].master_conn = "fd_sent"
        /\ obs[c].record.client_input = <<"F", "O", "O", CR, LF>>
        /\ obs[c].record.flags = {}


\* C36: with time advancing, the retry timer firing and the master's
\* callbacks called, every session that is moving back (queued for a retry or
\* with a master connection in flight) is eventually destroyed.
C36_MovingBackEventuallyDestroyed ==
    \A c \in Clients :
        (Live(c) /\ MovingBack(clients[c])) ~> ~Live(c)

\* Two sessions wait in the queue, the deadline of the first has passed, and
\* the tick that finds the master busy destroys it.
C36_Witness ==
    \E c, d \in Clients :
        /\ c # d
        /\ ~deinit_done /\ to_unhibernate
        /\ unhibernate_queue # <<>> /\ unhibernate_queue[1] = c
        /\ InQueue(d)
        /\ DeadlineElapsed(clients[c], ioloop_time)
        /\ imap_clients_unhibernate(State, AllBusy).clients[c].alive = "freed"

=============================================================================
